---- MODULE Spec2Model ----
(***************************************************************************)
(* Model of libdeye's MQTT transport (src/libdeye/mqtt_client.py):         *)
(* BaseDeyeMqttClient, DeyeClassicMqttClient and DeyeFogMqttClient, and of *)
(* the command / state codec (device_command.py, device_state.py).         *)
(*                                                                         *)
(* Two threads act on the client: the asyncio event loop (connect,         *)
(* disconnect, subscribe, unsubscribe, publish_command,                    *)
(* query_device_state, and every callback handed off with                  *)
(* call_soon_threadsafe) and the paho network thread started by            *)
(* loop_start (on_connect, on_disconnect, on_message).  Each handler is    *)
(* one action; a coroutine is split at its await points.                   *)
(***************************************************************************)
EXTENDS Integers, Sequences, FiniteSets, TLC

\* ------------------------------------------------------------- bounds ----
MaxLoad == 3     \* registrations made + commands waiting + callbacks handed off
MaxQueries == 1  \* query_device_state calls
MaxFrameBytes == 19  \* bytes of the longest state frame
MaxCommands == 2  \* publish_command calls followed statement by statement
MaxTicks == 3  \* steps of the clock

\* -------------------------------------------------------- value sets ----
\* {endpoint}/{product_id}/{device_id}/status/hex, .../online/json, .../command/hex
StatusTopic == "status/hex"
OnlineTopic == "online/json"
CommandTopic == "command/hex"
Topics == {StatusTopic, OnlineTopic}

QUERY_DEVICE_STATE_COMMAND_CLASSIC == "0001"
UserCommands == {"cmdA"}

\* Inbound payloads (bytes): a JSON object with or without the key "data", a
\* JSON value that is no object (b"[]"), text that is no JSON, bytes that are
\* no UTF-8 text (b"\xff").  The data "s1" and "s2" are values the lambda of
\* the topic accepts, "short" is a string of MalformedStates.
Payloads ==
    { [text |-> "object",   hasData |-> TRUE,  data |-> "s1"],
      [text |-> "object",   hasData |-> TRUE,  data |-> "s2"],
      [text |-> "object",   hasData |-> TRUE,  data |-> "short"],
      [text |-> "object",   hasData |-> FALSE, data |-> "none"],
      [text |-> "value",    hasData |-> FALSE, data |-> "none"],
      [text |-> "not_json", hasData |-> FALSE, data |-> "none"],
      [text |-> "not_utf8", hasData |-> FALSE, data |-> "none"] }

ApiErrors == {"DeyeCloudApiInvalidAuthError", "DeyeCloudApiCannotConnectError"}
UnexpectedResultCodes == {7}

\* the MQTT info held by the client: never fetched, fetched since the last
\* connection loss, or fetched before it
NoCreds == "none"
CredStates == {NoCreds, "fresh", "stale"}

\* -------------------------------------------------------------- state ----
VARIABLES
    connected,         \* self._mqtt.is_connected()
    ioPc,              \* position of the paho network thread
    subscribers,       \* self._subscribers: dict in insertion order
    pending_commands,  \* self._pending_commands
    brokerSubs,        \* topics subscribed at the broker in this session
    closures,          \* the unsubscribe closures returned so far
    loopQueue,         \* callbacks handed to the event loop, not yet run
    loopBlocked,       \* event loop thread is stuck inside a blocking call
    connectPc,         \* position of the connect() coroutine
    refreshPc,         \* position of the refresh started by on_disconnect
    mqttCreds,         \* state of the MQTT info set by _set_mqtt_info
    queries,           \* the query_device_state calls made so far
    mqttCalls,         \* calls the latest action made on self._mqtt / the cloud API
    lastOp,            \* the latest action and what it saw
    codec,             \* a DeyeDeviceCommand or a state string, and what it turns into
    ioIter,            \* the iterator _mqtt_on_connect holds on the network thread
    loopPc,            \* position of the event loop thread inside publish_command
    published,         \* payloads of self._mqtt.publish on the command topic, in order
    issued,            \* publish_command calls made so far
    api                \* a DeyeCloudApi object, the clock and its request under way

vars == <<connected, ioPc, subscribers, pending_commands, brokerSubs, closures,
          loopQueue, loopBlocked, connectPc, refreshPc, mqttCreds,
          queries, mqttCalls, lastOp, codec, ioIter, loopPc, published, issued,
          api>>
raceVars == <<ioIter, loopPc, published, issued>>

\* ------------------------------------------------ dict (ordered) helpers ----
HasKey(d, t) == \E i \in DOMAIN d : d[i].topic = t
IndexOf(d, t) == CHOOSE i \in DOMAIN d : d[i].topic = t
Get(d, t) == d[IndexOf(d, t)].callbacks
SetDefault(d, t) ==
    IF HasKey(d, t) THEN d ELSE Append(d, [topic |-> t, callbacks |-> {}])
Put(d, t, s) == [d EXCEPT ![IndexOf(d, t)].callbacks = s]
Callbacks(d, t) == IF HasKey(d, t) THEN Get(d, t) ELSE {}

\* every order in which a set can be iterated
Orders(S) ==
    {f \in [1..Cardinality(S) -> S] : \A i, j \in DOMAIN f : i # j => f[i] # f[j]}

\* calls on the paho client
Call(op, t, p) == [op |-> op, topic |-> t, payload |-> p]
NetSubscribe(t) == Call("subscribe", t, "")
NetUnsubscribe(t) == Call("unsubscribe", t, "")
NetPublish(t, p) == Call("publish", t, p)
GetMqttInfo == Call("get_deye_platform_mqtt_info", "", "")
CallsOf(calls, op) == SelectSeq(calls, LAMBDA c : c.op = op)

\* the broker's subscription set after a sequence of client calls
RECURSIVE BrokerAfter(_, _)
BrokerAfter(bs, calls) ==
    IF calls = <<>> THEN bs
    ELSE BrokerAfter(
            IF Head(calls).op = "subscribe" THEN bs \cup {Head(calls).topic}
            ELSE IF Head(calls).op = "unsubscribe" THEN bs \ {Head(calls).topic}
            ELSE bs,
            Tail(calls))

Op(name, t, r, wasConn, pre, arg, err) ==
    [name |-> name, topic |-> t, reg |-> r, wasConnected |-> wasConn,
     pre |-> pre, arg |-> arg, error |-> err]

\* no command or state at hand
NoCodec == [op |-> "none", input |-> <<>>, output |-> [error |-> "none"]]

\* no DeyeCloudApi object at hand
NoApi == [pc |-> "none"]

\* no loop of _mqtt_on_connect under way; no publish_command under way
NoIter == [over |-> "none", index |-> 0, size |-> 0]
Idle == [op |-> "idle", command |-> 0, is_connected |-> FALSE]

\* BaseDeyeMqttClient.__init__
ClientInit ==
    /\ connected = FALSE
    /\ ioPc = "idle"
    /\ subscribers = <<>>
    /\ pending_commands = <<>>
    /\ brokerSubs = {}
    /\ closures = <<>>
    /\ loopQueue = <<>>
    /\ loopBlocked = FALSE
    /\ connectPc = "idle"
    /\ refreshPc = "idle"
    /\ mqttCreds = NoCreds
    /\ queries = <<>>
    /\ mqttCalls = <<>>
    /\ lastOp = Op("init", "", 0, FALSE, 0, "", "none")
    /\ ioIter = NoIter
    /\ loopPc = Idle
    /\ published = <<>>
    /\ issued = 0

Init ==
    /\ ClientInit
    /\ codec = NoCodec
    /\ api = NoApi

\* ------------------------------------- frames: device_command.py, device_state.py ----
\* Python's | and & on non-negative ints
RECURSIVE BitOr(_, _)
BitOr(a, b) ==
    IF a = 0 THEN b
    ELSE IF b = 0 THEN a
    ELSE (IF a % 2 = 1 \/ b % 2 = 1 THEN 1 ELSE 0) + 2 * BitOr(a \div 2, b \div 2)

RECURSIVE BitAnd(_, _)
BitAnd(a, b) ==
    IF a = 0 \/ b = 0 THEN 0
    ELSE (IF a % 2 = 1 /\ b % 2 = 1 THEN 1 ELSE 0) + 2 * BitAnd(a \div 2, b \div 2)

ShiftLeft(a, n) == a * 2^n

\* const.py: DeyeFanSpeed and DeyeDeviceMode (IntEnum)
DeyeFanSpeed == 0..4
DeyeDeviceMode == 0..6

\* variant: the flags numbered without the POWEROFF / POWERON members
DeyeDeviceCommandFlagDense ==
    [POWER_SWITCH |-> 1, OSCILLATING_SWITCH |-> 2, CHILD_LOCK_SWITCH |-> 4,
     POWEROFF_SWITCH |-> 0, POWERON_SWITCH |-> 0,
     WATER_PUMP_SWITCH |-> 8, ANION_SWITCH |-> 16]

\* class DeyeDeviceCommandFlag(IntFlag): auto() gives 1, 2, 4, ...
DeyeDeviceCommandFlag ==
    [POWER_SWITCH |-> 1, OSCILLATING_SWITCH |-> 2, CHILD_LOCK_SWITCH |-> 4,
     POWEROFF_SWITCH |-> 8, POWERON_SWITCH |-> 16,
     WATER_PUMP_SWITCH |-> 32, ANION_SWITCH |-> 64]

\* to_bytes, lines 52-62
CommandFlag(c) ==
    LET f0 == 0
        f1 == IF c.anion_switch
              THEN BitOr(f0, DeyeDeviceCommandFlag.ANION_SWITCH) ELSE f0
        f2 == IF c.water_pump_switch
              THEN BitOr(f1, DeyeDeviceCommandFlag.WATER_PUMP_SWITCH) ELSE f1
        f3 == IF c.power_switch
              THEN BitOr(f2, DeyeDeviceCommandFlag.POWER_SWITCH) ELSE f2
        f4 == IF c.oscillating_switch
              THEN BitOr(f3, DeyeDeviceCommandFlag.OSCILLATING_SWITCH) ELSE f3
        f5 == IF c.child_lock_switch
              THEN BitOr(f4, DeyeDeviceCommandFlag.CHILD_LOCK_SWITCH) ELSE f4
    IN  f5

\* variant: mode in the high nibble, fan speed in the low one
SpeedModeByteSwapped(fan_speed, mode) == BitOr(ShiftLeft(mode, 4), fan_speed)

\* to_bytes, line 69: (self.fan_speed << 4) | self.mode
SpeedModeByte(fan_speed, mode) == BitOr(ShiftLeft(fan_speed, 4), mode)

\* variant: the command written in the layout of a state frame (two flag
\* bytes with the state's bit numbers, then speed|mode, then the humidity)
ToBytesStateLayout(c) ==
    LET list == <<20, 17,
                  (IF c.power_switch THEN 1 ELSE 0)
                    + (IF c.oscillating_switch THEN 2 ELSE 0)
                    + (IF c.child_lock_switch THEN 4 ELSE 0),
                  (IF c.anion_switch THEN 1 ELSE 0)
                    + (IF c.water_pump_switch THEN 2 ELSE 0),
                  SpeedModeByte(c.fan_speed, c.mode), c.target_humidity,
                  0, 0, 0, 0, 0, 0, 0, 0, 64, 64, 64, 64>>
    IN  IF \E i \in DOMAIN list : list[i] \notin 0..255
        THEN [error |-> "ValueError", bytes |-> <<>>]
        ELSE [error |-> "none", bytes |-> list]

\* to_bytes, lines 64-77: bytes([...]) raises ValueError outside range(256)
ToBytes(c) ==
    LET list == <<8, 2, CommandFlag(c), SpeedModeByte(c.fan_speed, c.mode),
                  c.target_humidity, 0, 0, 0, 0, 0>>
    IN  IF \E i \in DOMAIN list : list[i] \notin 0..255
        THEN [error |-> "ValueError", bytes |-> <<>>]
        ELSE [error |-> "none", bytes |-> list]

\* DeyeDeviceCommand.__init__: the commands tried
Humidities == {0, 60, 255, 256}
Commands ==
    [anion_switch : BOOLEAN, water_pump_switch : BOOLEAN, power_switch : BOOLEAN,
     oscillating_switch : BOOLEAN, child_lock_switch : BOOLEAN,
     fan_speed : DeyeFanSpeed, mode : DeyeDeviceMode,
     target_humidity : Humidities]

\* DeyeDeviceCommand(): the defaults of __init__
DefaultCommand ==
    [anion_switch |-> FALSE, water_pump_switch |-> FALSE, power_switch |-> FALSE,
     oscillating_switch |-> FALSE, child_lock_switch |-> FALSE,
     fan_speed |-> 1, mode |-> 0, target_humidity |-> 60]

\* ---- a state string is a sequence of characters
HexDigits == <<"0", "1", "2", "3", "4", "5", "6", "7", "8", "9",
               "A", "B", "C", "D", "E", "F">>
LowerDigits == <<"a", "b", "c", "d", "e", "f">>

\* the value of a hex digit, -1 for any other character
HexVal(ch) ==
    IF \E i \in DOMAIN HexDigits : HexDigits[i] = ch
    THEN (CHOOSE i \in DOMAIN HexDigits : HexDigits[i] = ch) - 1
    ELSE IF \E i \in DOMAIN LowerDigits : LowerDigits[i] = ch
    THEN (CHOOSE i \in DOMAIN LowerDigits : LowerDigits[i] = ch) + 9
    ELSE -1

IsSpace(ch) == ch = " "

\* bytes.fromhex(state): whitespace between the bytes is skipped, anything
\* else that is no pair of hex digits raises ValueError
RECURSIVE FromHex(_)
FromHex(str) ==
    IF str = <<>> THEN [error |-> "none", bytes |-> <<>>]
    ELSE IF IsSpace(str[1]) THEN FromHex(Tail(str))
    ELSE IF Len(str) < 2 \/ HexVal(str[1]) < 0 \/ HexVal(str[2]) < 0
    THEN [error |-> "ValueError", bytes |-> <<>>]
    ELSE LET rest == FromHex(SubSeq(str, 3, Len(str))) IN
         IF rest.error # "none" THEN rest
         ELSE [error |-> "none",
               bytes |-> <<16 * HexVal(str[1]) + HexVal(str[2])>> \o rest.bytes]

\* state_hex[a:b]: a slice stops at the end of the bytes
Slice(bytes, a, b) ==
    SubSeq(bytes, a + 1, IF b < Len(bytes) THEN b ELSE Len(bytes))

\* int.from_bytes(..., byteorder="big")
RECURSIVE IntFromBytes(_)
IntFromBytes(bytes) ==
    IF bytes = <<>> THEN 0
    ELSE 256 * IntFromBytes(SubSeq(bytes, 1, Len(bytes) - 1)) + bytes[Len(bytes)]

\* variant: the flags numbered without the members _5, _6 and _7
DeyeDeviceStateFlagDense ==
    [ANION_SWITCH |-> 1, WATER_PUMP_SWITCH |-> 2, ELECTROMAGNETIC_STATE |-> 4,
     PRESS_STATE |-> 8, ENVIRONMENT_DEGREE |-> 16,
     POWER_SWITCH |-> 32, OSCILLATING_SWITCH |-> 64, CHILD_LOCK_SWITCH |-> 128,
     POWEROFF_SWITCH |-> 256, POWERON_SWITCH |-> 512,
     DEFROSTING_STATE |-> 1024, WATER_TANK_FULL_STATE |-> 2048,
     FAN_RUNNING_STATE |-> 4096]

\* class DeyeDeviceStateFlag(IntFlag)
DeyeDeviceStateFlag ==
    [ANION_SWITCH |-> 1, WATER_PUMP_SWITCH |-> 2, ELECTROMAGNETIC_STATE |-> 4,
     PRESS_STATE |-> 8, ENVIRONMENT_DEGREE |-> 16,
     POWER_SWITCH |-> 256, OSCILLATING_SWITCH |-> 512, CHILD_LOCK_SWITCH |-> 1024,
     POWEROFF_SWITCH |-> 2048, POWERON_SWITCH |-> 4096,
     DEFROSTING_STATE |-> 8192, WATER_TANK_FULL_STATE |-> 16384,
     FAN_RUNNING_STATE |-> 32768]

\* (state_flag & flag) > 0
HasFlag(state_flag, flag) == BitAnd(state_flag, flag) > 0

\* variant: the temperature byte taken as it is
EnvironmentTemperatureRaw(state_hex) == state_hex[16]

\* _parse_state_classic, line 65: state_hex[15] - 40
EnvironmentTemperature(state_hex) == state_hex[16] - 40

\* DeyeDeviceState(state) for a str: _parse_state_classic, statement by
\* statement; the first statement that raises ends it
ParseStateClassic(state) ==
    LET hex == FromHex(state)
        state_hex == hex.bytes
        state_flag == IntFromBytes(Slice(state_hex, 2, 4))
    IN
    IF hex.error # "none" THEN [error |-> hex.error]
    ELSE IF Len(state) < 9 THEN [error |-> "IndexError"]
    ELSE IF HexVal(state[9]) \notin DeyeFanSpeed THEN [error |-> "ValueError"]
    ELSE IF Len(state) < 10 THEN [error |-> "IndexError"]
    ELSE IF HexVal(state[10]) \notin DeyeDeviceMode THEN [error |-> "ValueError"]
    ELSE IF Len(state_hex) < 6 THEN [error |-> "IndexError"]
    ELSE IF Len(state_hex) < 16 THEN [error |-> "IndexError"]
    ELSE IF Len(state_hex) < 17 THEN [error |-> "IndexError"]
    ELSE IF Len(state_hex) < 15 THEN [error |-> "IndexError"]
    ELSE IF Len(state_hex) < 18 THEN [error |-> "IndexError"]
    ELSE [error |-> "none",
          state |->
            [anion_switch |->
                HasFlag(state_flag, DeyeDeviceStateFlag.ANION_SWITCH),
             water_pump_switch |->
                HasFlag(state_flag, DeyeDeviceStateFlag.WATER_PUMP_SWITCH),
             power_switch |->
                HasFlag(state_flag, DeyeDeviceStateFlag.POWER_SWITCH),
             oscillating_switch |->
                HasFlag(state_flag, DeyeDeviceStateFlag.OSCILLATING_SWITCH),
             child_lock_switch |->
                HasFlag(state_flag, DeyeDeviceStateFlag.CHILD_LOCK_SWITCH),
             defrosting |->
                HasFlag(state_flag, DeyeDeviceStateFlag.DEFROSTING_STATE),
             water_tank_full |->
                HasFlag(state_flag, DeyeDeviceStateFlag.WATER_TANK_FULL_STATE),
             fan_running |->
                HasFlag(state_flag, DeyeDeviceStateFlag.FAN_RUNNING_STATE),
             fan_speed |-> HexVal(state[9]),
             mode |-> HexVal(state[10]),
             target_humidity |-> state_hex[6],
             environment_temperature |-> EnvironmentTemperature(state_hex),
             environment_humidity |-> state_hex[17],
             _electromagnetic_state |->
                HasFlag(state_flag, DeyeDeviceStateFlag.ELECTROMAGNETIC_STATE),
             _press_state |->
                HasFlag(state_flag, DeyeDeviceStateFlag.PRESS_STATE),
             _environment_degree |->
                HasFlag(state_flag, DeyeDeviceStateFlag.ENVIRONMENT_DEGREE),
             _poweroff_switch |->
                HasFlag(state_flag, DeyeDeviceStateFlag.POWEROFF_SWITCH),
             _poweron_switch |->
                HasFlag(state_flag, DeyeDeviceStateFlag.POWERON_SWITCH),
             _coil_temperature |-> state_hex[15] - 40,
             _exhaust_temperature |-> state_hex[18] - 40]]

\* ------------------------------------------- BaseDeyeMqttClient helpers ----
\* variant: the subscribe ignores how many callbacks the topic already has
ShouldNetSubscribeAnyLen(isConnected, current_callback_len) == isConnected

\* _subscribe_topic, line 116
ShouldNetSubscribe(isConnected, current_callback_len) ==
    isConnected /\ current_callback_len = 0

\* _subscribe_topic, lines 112-115
SubscribersAfterSubscribe(d, t, r) ==
    Put(SetDefault(d, t), t, Get(SetDefault(d, t), t) \cup {r})

\* _subscribe_topic, lines 114-117
SubscribeCalls(isConnected, d, t) ==
    IF ShouldNetSubscribe(isConnected, Cardinality(Callbacks(d, t)))
    THEN <<NetSubscribe(t)>> ELSE <<>>

\* unsubscribe, line 120: set.remove raises KeyError for a missing element
UnsubscribeRaises(d, t, r) == r \notin Get(d, t)

\* variant: the unsubscribe empties the topic's set
SubscribersAfterUnsubscribeAll(d, t, r) ==
    IF UnsubscribeRaises(d, t, r) THEN d ELSE Put(d, t, {})

\* unsubscribe, line 120
SubscribersAfterUnsubscribe(d, t, r) ==
    IF UnsubscribeRaises(d, t, r) THEN d ELSE Put(d, t, Get(d, t) \ {r})

\* variant: the unsubscribe ignores the callbacks that remain
ShouldNetUnsubscribeAnyLen(isConnected, remaining) == isConnected

\* variant: the unsubscribe ignores the connection state
ShouldNetUnsubscribeOffline(isConnected, remaining) == remaining = 0

\* unsubscribe, line 121
ShouldNetUnsubscribe(isConnected, remaining) ==
    isConnected /\ remaining = 0

\* unsubscribe, lines 120-122
UnsubscribeCalls(isConnected, d, t, r) ==
    IF /\ ~UnsubscribeRaises(d, t, r)
       /\ ShouldNetUnsubscribe(isConnected,
              Cardinality(Get(SubscribersAfterUnsubscribe(d, t, r), t)))
    THEN <<NetUnsubscribe(t)>> ELSE <<>>

\* variant: on-connect subscribes every key of the dict
NeedsResubscribeAll(entry) == TRUE

\* _mqtt_on_connect, line 68
NeedsResubscribe(entry) == Cardinality(entry.callbacks) > 0

\* _mqtt_on_connect, lines 67-69: the dict is scanned in insertion order
ResubscribeCalls(d) ==
    LET live == SelectSeq(d, NeedsResubscribe)
    IN  [i \in 1..Len(live) |-> NetSubscribe(live[i].topic)]

\* variant: the flush walks the queue from its end
FlushCallsReversed(pending) ==
    [i \in 1..Len(pending) |->
        NetPublish(pending[Len(pending) + 1 - i][1], pending[Len(pending) + 1 - i][2])]

\* _mqtt_on_connect, lines 70-72
FlushCalls(pending) ==
    [i \in 1..Len(pending) |-> NetPublish(pending[i][1], pending[i][2])]

\* _mqtt_on_connect, line 73
PendingAfterFlush(pending) == <<>>

\* _mqtt_on_disconnect, line 86: run_coroutine_threadsafe(self._set_mqtt_info(), ...)
RefreshTask == [kind |-> "refresh", reg |-> 0, arg |-> ""]

\* _mqtt_on_disconnect, lines 81-86
OnDisconnectRefreshes(result_code) == result_code # 0

\* variant: the refresh is scheduled and not waited for
OnDisconnectNoWait(result_code) == FALSE

\* _mqtt_on_disconnect, line 86: .result() blocks the network thread
OnDisconnectWaits(result_code) == OnDisconnectRefreshes(result_code)

\* variant: paho reconnects whatever the refresh ended with
ReconnectsAfterAny(refresh) == TRUE

\* _mqtt_on_disconnect, line 86: .result() re-raises the refresh's exception
ReconnectsAfter(refresh) == refresh = "done"

\* variant: connect swallows the error of _set_mqtt_info
ConnectProceedsAlways(fetchError) == TRUE

\* connect, lines 50-52: an exception of _set_mqtt_info leaves the coroutine
ConnectProceeds(fetchError) == fetchError = "none"

\* DeyeClassicMqttClient._process_message_payload: json.loads(payload)["data"]
ProcessMessagePayload(payload) ==
    IF payload.text = "not_utf8"
    THEN [error |-> "UnicodeDecodeError", value |-> "none"]
    ELSE IF payload.text = "not_json"
    THEN [error |-> "JSONDecodeError", value |-> "none"]
    ELSE IF payload.text = "value"
    THEN [error |-> "TypeError", value |-> "none"]
    ELSE IF ~payload.hasData THEN [error |-> "KeyError", value |-> "none"]
    ELSE [error |-> "none", value |-> payload.data]

\* _mqtt_on_message, line 104: except (json.JSONDecodeError, KeyError)
CaughtByOnMessage(error) == error \in {"JSONDecodeError", "KeyError"}

\* variant: only the first callback of the copy is handed off
HandOffsFirstOnly(order, value) ==
    IF order = <<>> THEN <<>>
    ELSE <<[kind |-> "callback", reg |-> order[1], arg |-> value]>>

\* variant: the message is handed to every callback ever registered
HandOffsToAll(order, value) ==
    [i \in 1..Len(closures) |-> [kind |-> "callback", reg |-> i, arg |-> value]]

\* _mqtt_on_message, lines 100-103: one call_soon_threadsafe per callback
HandOffs(order, value) ==
    [i \in 1..Len(order) |-> [kind |-> "callback", reg |-> order[i], arg |-> value]]

\* variant: the command is queued whatever the connection state
PendingAfterPublishAlways(isConnected, pending, command_bytes) ==
    Append(pending, <<CommandTopic, command_bytes>>)

\* DeyeClassicMqttClient.publish_command, lines 210-213
PublishCalls(isConnected, command_bytes) ==
    IF isConnected THEN <<NetPublish(CommandTopic, command_bytes)>> ELSE <<>>

\* DeyeClassicMqttClient.publish_command, lines 210-213
PendingAfterPublish(isConnected, pending, command_bytes) ==
    IF isConnected THEN pending
    ELSE Append(pending, <<CommandTopic, command_bytes>>)

\* data of a status/hex message that is a string and no state: two bytes of
\* hex
MalformedStates ==
    [short |-> <<"1", "4", "1", "1">>]

\* the lambdas of subscribe_state_change (line 187: DeyeDeviceState(payload))
\* and subscribe_availability_change (line 199: payload["online"]): the
\* exception raised before the user's callback is called
LambdaError(topic, payload) ==
    IF payload \notin DOMAIN MalformedStates THEN "none"
    ELSE IF topic = StatusTopic
    THEN ParseStateClassic(MalformedStates[payload]).error
    ELSE "TypeError"

\* variant: the flush runs before the re-subscription
OnConnectCallsFlushFirst(d, pending) == FlushCalls(pending) \o ResubscribeCalls(d)

\* _mqtt_on_connect, lines 67-72: the scan of the registry, then the flush
OnConnectCalls(d, pending) == ResubscribeCalls(d) \o FlushCalls(pending)

\* variant: on_message without the done() guard
FutureUnguarded(q) == TRUE

\* query_device_state.on_message, line 223: not future.done()
FutureNotDone(q) == q.future = "pending"

\* _get_topic_prefix reads self._endpoint, which only _set_mqtt_info assigns
EndpointKnown == mqttCreds # NoCreds

Load == Len(closures) + Len(pending_commands) + Len(loopQueue)
NewQuery(r) ==
    [pc |-> "awaiting", future |-> "pending", result |-> "none",
     unsubscribe |-> r, resolved |-> 0, unsubscribed |-> 0, first |-> "none"]

\* ------------------------------------------------- event-loop thread ----
\* subscribe_state_change / subscribe_availability_change -> _subscribe_topic
subscribe_topic(t) ==
    /\ ~loopBlocked
    /\ EndpointKnown
    /\ Load < MaxLoad
    /\ subscribers' = SubscribersAfterSubscribe(subscribers, t, Len(closures) + 1)
    /\ mqttCalls' = SubscribeCalls(connected, subscribers, t)
    /\ brokerSubs' = BrokerAfter(brokerSubs, mqttCalls')
    /\ closures' = Append(closures, [topic |-> t, query |-> 0])
    /\ lastOp' = Op("subscribe", t, Len(closures) + 1, connected,
                    Cardinality(Callbacks(subscribers, t)), "", "none")
    /\ UNCHANGED <<raceVars, api, codec, connected, ioPc, pending_commands, loopQueue, loopBlocked,
                   connectPc, refreshPc, mqttCreds, queries>>

\* the unsubscribe function returned by _subscribe_topic for registration r
unsubscribe_fn(r) ==
    /\ ~loopBlocked
    /\ r \in DOMAIN closures
    /\ closures[r].query = 0
    /\ LET t == closures[r].topic IN
        /\ subscribers' = SubscribersAfterUnsubscribe(subscribers, t, r)
        /\ mqttCalls' = UnsubscribeCalls(connected, subscribers, t, r)
        /\ brokerSubs' = BrokerAfter(brokerSubs, mqttCalls')
        /\ lastOp' = Op("unsubscribe", t, r, connected,
                        Cardinality(Get(subscribers, t)), "",
                        IF UnsubscribeRaises(subscribers, t, r)
                        THEN "KeyError" ELSE "none")
    /\ UNCHANGED <<raceVars, api, codec, connected, ioPc, pending_commands, closures, loopQueue,
                   loopBlocked, connectPc, refreshPc, mqttCreds,
                   queries>>

\* DeyeClassicMqttClient.publish_command
publish_command(command) ==
    /\ ~loopBlocked
    /\ EndpointKnown
    /\ connected \/ Load < MaxLoad
    /\ mqttCalls' = PublishCalls(connected, command)
    /\ pending_commands' = PendingAfterPublish(connected, pending_commands, command)
    /\ lastOp' = Op("publish_command", CommandTopic, 0, connected,
                    Len(pending_commands), command, "none")
    /\ UNCHANGED <<raceVars, api, codec, connected, ioPc, subscribers, brokerSubs, closures, loopQueue,
                   loopBlocked, connectPc, refreshPc, mqttCreds,
                   queries>>

\* a Classic operation before _set_mqtt_info ever ran: self._endpoint is
\* missing, the topic cannot be built and nothing else happens
attribute_error(name) ==
    /\ ~loopBlocked
    /\ ~EndpointKnown
    /\ lastOp.error # "AttributeError"
    /\ mqttCalls' = <<>>
    /\ lastOp' = Op(name, "", 0, connected, 0, "", "AttributeError")
    /\ UNCHANGED <<raceVars, api, codec, connected, ioPc, subscribers, pending_commands, brokerSubs,
                   closures, loopQueue, loopBlocked, connectPc, refreshPc,
                   mqttCreds, queries>>

\* DeyeClassicMqttClient.query_device_state up to `await future`
query_device_state ==
    /\ ~loopBlocked
    /\ EndpointKnown
    /\ Len(queries) < MaxQueries
    /\ Load + (IF connected THEN 1 ELSE 2) <= MaxLoad
    /\ LET r == Len(closures) + 1
           subCalls == SubscribeCalls(connected, subscribers, StatusTopic)
       IN
        /\ subscribers' = SubscribersAfterSubscribe(subscribers, StatusTopic, r)
        /\ closures' = Append(closures,
              [topic |-> StatusTopic, query |-> Len(queries) + 1])
        /\ queries' = Append(queries, NewQuery(r))
        /\ mqttCalls' = subCalls \o
              PublishCalls(connected, QUERY_DEVICE_STATE_COMMAND_CLASSIC)
        /\ pending_commands' = PendingAfterPublish(connected, pending_commands,
              QUERY_DEVICE_STATE_COMMAND_CLASSIC)
        /\ brokerSubs' = BrokerAfter(brokerSubs, mqttCalls')
        /\ lastOp' = Op("query_device_state", StatusTopic, r, connected,
                        Len(pending_commands), "", "none")
    /\ UNCHANGED <<raceVars, api, codec, connected, ioPc, loopQueue, loopBlocked, connectPc, refreshPc,
                   mqttCreds>>

\* query_device_state.on_message(state), run on the event loop for query k
on_message(k, r, state) ==
    LET q == queries[k]
        t == closures[r].topic
        fire == FutureNotDone(q)
        unsub == fire /\ q.unsubscribe # 0
    IN
    /\ queries' = [queries EXCEPT ![k] =
          [q EXCEPT !.future = IF fire THEN "result" ELSE @,
                    !.result = IF fire THEN state ELSE @,
                    !.resolved = IF fire THEN @ + 1 ELSE @,
                    !.unsubscribed = IF unsub THEN @ + 1 ELSE @,
                    !.first = IF @ = "none" THEN state ELSE @]]
    /\ subscribers' = IF unsub
          THEN SubscribersAfterUnsubscribe(subscribers, t, q.unsubscribe)
          ELSE subscribers
    /\ mqttCalls' = IF unsub
          THEN UnsubscribeCalls(connected, subscribers, t, q.unsubscribe)
          ELSE <<>>
    /\ brokerSubs' = BrokerAfter(brokerSubs, mqttCalls')
    /\ closures' = closures
    /\ lastOp' = Op("on_message", t, r, connected, 0, state,
                    IF unsub /\ UnsubscribeRaises(subscribers, t, q.unsubscribe)
                    THEN "KeyError" ELSE "none")

\* the event loop runs the oldest handed-off callback; an exception of the
\* lambda leaves it before the user's callback is called and goes to the event
\* loop's exception handler (asyncio Handle._run)
loop_run ==
    /\ ~loopBlocked
    /\ loopQueue # <<>>
    /\ loopQueue' = Tail(loopQueue)
    /\ LET e == Head(loopQueue) IN
        IF e.kind = "refresh"
        THEN /\ refreshPc' = "await_info"
             /\ mqttCalls' = <<GetMqttInfo>>
             /\ lastOp' = Op("refresh_start", "", 0, connected, 0, "", "none")
             /\ UNCHANGED <<subscribers, brokerSubs, closures, queries>>
        ELSE IF LambdaError(closures[e.reg].topic, e.arg) # "none"
        THEN /\ mqttCalls' = <<>>
             /\ lastOp' = Op("lambda", closures[e.reg].topic, e.reg, connected,
                             0, e.arg, LambdaError(closures[e.reg].topic, e.arg))
             /\ UNCHANGED <<subscribers, brokerSubs, closures, queries, refreshPc>>
        ELSE IF closures[e.reg].query # 0
        THEN /\ on_message(closures[e.reg].query, e.reg, e.arg)
             /\ UNCHANGED refreshPc
        ELSE /\ mqttCalls' = <<>>
             /\ lastOp' = Op("callback", closures[e.reg].topic, e.reg, connected,
                             0, e.arg, "none")
             /\ UNCHANGED <<subscribers, brokerSubs, closures, queries, refreshPc>>
    /\ UNCHANGED <<raceVars, api, codec, connected, ioPc, pending_commands, loopBlocked, connectPc,
                   mqttCreds>>

\* the caller's wait_for cancels the task awaiting the future (cli.py 133-141)
query_timeout(k) ==
    /\ ~loopBlocked
    /\ k \in DOMAIN queries
    /\ queries[k].pc = "awaiting"
    /\ queries[k].future = "pending"
    /\ queries' = [queries EXCEPT ![k].pc = "cancelled", ![k].future = "cancelled"]
    /\ mqttCalls' = <<>>
    /\ lastOp' = Op("query_timeout", StatusTopic, queries[k].unsubscribe,
                    connected, 0, "", "TimeoutError")
    /\ UNCHANGED <<raceVars, api, codec, connected, ioPc, subscribers, pending_commands, brokerSubs,
                   closures, loopQueue, loopBlocked, connectPc, refreshPc,
                   mqttCreds>>

\* `return await future` once the future holds a result
query_return(k) ==
    /\ ~loopBlocked
    /\ k \in DOMAIN queries
    /\ queries[k].pc = "awaiting"
    /\ queries[k].future = "result"
    /\ queries' = [queries EXCEPT ![k].pc = "returned"]
    /\ mqttCalls' = <<>>
    /\ lastOp' = Op("query_return", StatusTopic, queries[k].unsubscribe,
                    connected, 0, queries[k].result, "none")
    /\ UNCHANGED <<raceVars, api, codec, connected, ioPc, subscribers, pending_commands, brokerSubs,
                   closures, loopQueue, loopBlocked, connectPc, refreshPc,
                   mqttCreds>>

\* _set_mqtt_info after the cloud API answered: username_pw_set(...)
SetMqttInfoCalls == <<Call("username_pw_set", "", "")>>

\* connect(), line 50: the coroutine starts and awaits _set_mqtt_info()
connect ==
    /\ ~loopBlocked
    /\ connectPc = "idle"
    /\ ioPc \in {"idle", "stopped"}
    /\ connectPc' = "await_info"
    /\ mqttCalls' = <<GetMqttInfo>>
    /\ lastOp' = Op("connect_call", "", 0, connected, 0, "", "none")
    /\ UNCHANGED <<raceVars, api, codec, connected, ioPc, subscribers, pending_commands, brokerSubs,
                   closures, loopQueue, loopBlocked, refreshPc, mqttCreds, queries>>

\* connect(), lines 50-52: _set_mqtt_info() returns or raises
connect_resume(fetchError) ==
    /\ ~loopBlocked
    /\ connectPc = "await_info"
    /\ connectPc' = "idle"
    /\ mqttCreds' = IF fetchError = "none" THEN "fresh" ELSE mqttCreds
    /\ mqttCalls' =
          (IF fetchError = "none" THEN SetMqttInfoCalls ELSE <<>>)
          \o (IF ConnectProceeds(fetchError)
              THEN <<Call("connect_async", "", ""), Call("loop_start", "", "")>>
              ELSE <<>>)
    /\ ioPc' = IF ConnectProceeds(fetchError) THEN "connecting" ELSE ioPc
    /\ lastOp' = Op("connect", "", 0, connected, 0, fetchError,
                    IF ConnectProceeds(fetchError) THEN "none" ELSE fetchError)
    /\ UNCHANGED <<raceVars, api, codec, connected, subscribers, pending_commands, brokerSubs, closures,
                   loopQueue, loopBlocked, refreshPc, queries>>

\* disconnect(), lines 56-57: loop_stop() joins the network thread
disconnect ==
    /\ ~loopBlocked
    /\ ioPc \in {"connecting", "running", "wait_refresh"}
    /\ connected' = FALSE
    /\ mqttCalls' = <<Call("disconnect", "", ""), Call("loop_stop", "", "")>>
    /\ ioPc' = CASE ioPc = "connecting" -> "stopped"
                 [] ioPc = "running" -> "disconnecting"
                 [] OTHER -> ioPc
    /\ loopBlocked' = (ioPc # "connecting")
    /\ lastOp' = Op("disconnect", "", 0, connected, 0, "", "none")
    /\ UNCHANGED <<raceVars, api, codec, subscribers, pending_commands, brokerSubs, closures, loopQueue,
                   connectPc, refreshPc, mqttCreds, queries>>

\* the refresh coroutine started by _mqtt_on_disconnect: the cloud API answers
refresh_resume(fetchError) ==
    /\ ~loopBlocked
    /\ refreshPc = "await_info"
    /\ mqttCreds' = IF fetchError = "none" THEN "fresh" ELSE mqttCreds
    /\ mqttCalls' = IF fetchError = "none" THEN SetMqttInfoCalls ELSE <<>>
    /\ refreshPc' = IF ioPc # "wait_refresh" THEN "idle"
                    ELSE IF fetchError = "none" THEN "done" ELSE "failed"
    /\ lastOp' = Op("refresh", "", 0, connected, 0, "", fetchError)
    /\ UNCHANGED <<raceVars, api, codec, connected, ioPc, subscribers, pending_commands, brokerSubs,
                   closures, loopQueue, loopBlocked, connectPc,
                   queries>>

\* --------------------------------------------------- network thread ----
\* paho completes the connection: is_connected() turns true, then it calls
\* on_connect
transport_connected ==
    /\ ioPc = "connecting"
    /\ connected' = TRUE
    /\ ioPc' = "on_connect"
    /\ brokerSubs' = {}
    /\ mqttCalls' = <<>>
    /\ lastOp' = Op("connack", "", 0, connected, 0, "", "none")
    /\ UNCHANGED <<raceVars, api, codec, subscribers, pending_commands, closures, loopQueue, loopBlocked,
                   connectPc, refreshPc, mqttCreds, queries>>

\* _mqtt_on_connect
mqtt_on_connect ==
    /\ ioPc = "on_connect"
    /\ mqttCalls' = OnConnectCalls(subscribers, pending_commands)
    /\ pending_commands' = PendingAfterFlush(pending_commands)
    /\ brokerSubs' = BrokerAfter(brokerSubs, mqttCalls')
    /\ ioPc' = "running"
    /\ lastOp' = Op("on_connect", "", 0, connected, Len(pending_commands), "", "none")
    /\ UNCHANGED <<raceVars, api, codec, connected, subscribers, closures, loopQueue, loopBlocked,
                   connectPc, refreshPc, mqttCreds, queries>>

\* _mqtt_on_disconnect(result_code): 0 after disconnect(), non-zero when the
\* connection is lost; the MQTT info held then predates the loss
mqtt_on_disconnect(result_code) ==
    /\ IF result_code = 0
       THEN /\ ioPc = "disconnecting"
            /\ UNCHANGED mqttCreds
       ELSE /\ ioPc = "running"
            /\ mqttCreds' = "stale"
    /\ connected' = FALSE
    /\ brokerSubs' = {}
    /\ loopQueue' = IF OnDisconnectRefreshes(result_code)
                    THEN Append(loopQueue, RefreshTask)
                    ELSE loopQueue
    /\ ioPc' = IF OnDisconnectWaits(result_code) THEN "wait_refresh"
               ELSE IF result_code = 0 THEN "stopped" ELSE "connecting"
    /\ loopBlocked' = IF result_code = 0 /\ ~OnDisconnectWaits(result_code)
                      THEN FALSE ELSE loopBlocked
    /\ mqttCalls' = <<>>
    /\ lastOp' = Op("on_disconnect", "", 0, connected, result_code, "", "none")
    /\ UNCHANGED <<raceVars, api, codec, subscribers, pending_commands, closures, connectPc, refreshPc,
                   queries>>

\* _mqtt_on_disconnect, line 86: .result() returns the refresh's result or
\* raises its exception; the exception leaves the callback and ends the
\* network thread, a normal return lets paho go on.  A disconnect() waiting in
\* loop_stop() has asked the thread to end: it ends instead of reconnecting,
\* and the join returns.
on_disconnect_return ==
    /\ ioPc = "wait_refresh"
    /\ refreshPc \in {"done", "failed"}
    /\ ioPc' = IF ~ReconnectsAfter(refreshPc) THEN "dead"
               ELSE IF loopBlocked THEN "stopped" ELSE "connecting"
    /\ loopBlocked' = FALSE
    /\ refreshPc' = "idle"
    /\ mqttCalls' = <<>>
    /\ lastOp' = Op("on_disconnect_return", "", 0, connected, 0, "",
                    IF refreshPc = "done" THEN "none" ELSE "refresh failed")
    /\ UNCHANGED <<raceVars, api, codec, connected, subscribers, pending_commands, brokerSubs, closures,
                   loopQueue, connectPc, mqttCreds,
                   queries>>

\* _mqtt_on_message: the payload is processed inside the loop over the
\* callbacks, so an empty set processes nothing; an error the except clause
\* does not name leaves the handler and ends the network thread
Dispatch(topic, decoded) ==
    /\ ioPc = "running"
    /\ LET cbs == Callbacks(subscribers, topic)
           raised == IF HasKey(subscribers, topic) /\ cbs # {}
                     THEN decoded.error ELSE "none"
       IN
        /\ IF ~HasKey(subscribers, topic) \/ cbs = {} \/ decoded.error # "none"
           THEN loopQueue' = loopQueue
           ELSE \E order \in Orders(cbs) :
                  loopQueue' = loopQueue \o HandOffs(order, decoded.value)
        /\ ioPc' = IF raised = "none" \/ CaughtByOnMessage(raised)
                   THEN ioPc ELSE "dead"
        /\ lastOp' = Op("on_message_io", topic, 0, connected, Cardinality(cbs),
                        IF raised = "none" /\ cbs # {} THEN decoded.value ELSE "",
                        raised)
    /\ lastOp' # lastOp
    /\ mqttCalls' = <<>>
    /\ UNCHANGED <<raceVars, api, codec, connected, subscribers, pending_commands, brokerSubs,
                   closures, loopBlocked, connectPc, refreshPc, mqttCreds, queries>>

\* _mqtt_on_message of the Classic client
OnMessage(topic, payload) == Dispatch(topic, ProcessMessagePayload(payload))

\* a message arrives while the model has room for its hand-offs
mqtt_on_message(topic, payload) ==
    /\ Load + Cardinality(Callbacks(subscribers, topic)) <= MaxLoad
    /\ OnMessage(topic, payload)

Next ==
    \/ \E t \in Topics : subscribe_topic(t)
    \/ \E r \in 1..MaxLoad : unsubscribe_fn(r)
    \/ \E c \in UserCommands : publish_command(c)
    \/ \E n \in {"subscribe", "publish_command", "query_device_state"} :
          attribute_error(n)
    \/ query_device_state
    \/ loop_run
    \/ \E k \in 1..MaxQueries : query_timeout(k)
    \/ \E k \in 1..MaxQueries : query_return(k)
    \/ connect
    \/ \E e \in {"none"} \cup ApiErrors : connect_resume(e)
    \/ disconnect
    \/ \E e \in {"none"} \cup ApiErrors : refresh_resume(e)
    \/ transport_connected
    \/ mqtt_on_connect
    \/ \E rc \in {0} \cup UnexpectedResultCodes : mqtt_on_disconnect(rc)
    \/ on_disconnect_return
    \/ \E t \in Topics, p \in Payloads : mqtt_on_message(t, p)

Spec == Init /\ [][Next]_vars

\* the network thread gets to run: it handles the disconnect that disconnect()
\* asked for and returns from _mqtt_on_disconnect once .result() has a value
LiveSpec ==
    /\ Spec
    /\ WF_vars(mqtt_on_disconnect(0))
    /\ WF_vars(on_disconnect_return)

\* ------------------------------------------- message dispatch in detail ----
\* The same handlers on a client that connects once and stays connected; the
\* event loop has room for the hand-offs of a topic with several callbacks.
DispatchPayloads ==
    {p \in Payloads : p.data \notin {"s1", "short"}}

dispatch_on_message(topic, payload) ==
    /\ Len(loopQueue) + Cardinality(Callbacks(subscribers, topic)) < MaxLoad
    /\ OnMessage(topic, payload)

DispatchNext ==
    \/ connect
    \/ connect_resume("none")
    \/ transport_connected
    \/ mqtt_on_connect
    \/ \E t \in Topics : subscribe_topic(t)
    \/ \E r \in 1..MaxLoad : unsubscribe_fn(r)
    \/ loop_run
    \/ \E t \in Topics, p \in DispatchPayloads : dispatch_on_message(t, p)

DispatchSpec == Init /\ [][DispatchNext]_vars

\* =============================================================== Fog ====
\* DeyeFogMqttClient: the same base class, one shared topic per account, the
\* callbacks filter the messages, commands and queries go to the cloud API.
\* (connect's cloud call stands for get_fog_platform_mqtt_info here.)
FogTopic == "fogcloud/app/sub"
Devices == {"devA", "devB"}

\* JSON documents on the shared topic; "missing" marks an absent key
FogPayloads ==
    { [name |-> "dataA", text |-> "object", device_id |-> "devA",
       biz_code |-> "device_data", message_type |-> "thing_property",
       status |-> "missing"],
      [name |-> "dataB", text |-> "object", device_id |-> "devB",
       biz_code |-> "device_data", message_type |-> "thing_property",
       status |-> "missing"],
      [name |-> "eventA", text |-> "object", device_id |-> "devA",
       biz_code |-> "device_data", message_type |-> "thing_event",
       status |-> "missing"],
      [name |-> "onlineA", text |-> "object", device_id |-> "devA",
       biz_code |-> "device_status", message_type |-> "missing",
       status |-> "online"],
      [name |-> "offlineA", text |-> "object", device_id |-> "devA",
       biz_code |-> "device_status", message_type |-> "missing",
       status |-> "offline"],
      [name |-> "onlineB", text |-> "object", device_id |-> "devB",
       biz_code |-> "device_status", message_type |-> "missing",
       status |-> "online"],
      [name |-> "nodevice", text |-> "object", device_id |-> "missing",
       biz_code |-> "device_status", message_type |-> "missing",
       status |-> "online"],
      [name |-> "garbage", text |-> "not_json", device_id |-> "missing",
       biz_code |-> "missing", message_type |-> "missing",
       status |-> "missing"] }

FogDoc(name) == CHOOSE p \in FogPayloads : p.name = name

\* DeyeFogMqttClient._process_message_payload: json.loads(msg.payload)
FogProcessMessagePayload(payload) ==
    IF payload.text = "not_json"
    THEN [error |-> "JSONDecodeError", value |-> "none"]
    ELSE [error |-> "none", value |-> payload.name]

\* the lambda of subscribe_state_change, lines 268-270: `and` stops at the
\* first false operand, a missing key raises KeyError
FogStateFilter(device_id, payload) ==
    IF payload.device_id = "missing" THEN [error |-> "KeyError", match |-> FALSE]
    ELSE IF payload.device_id # device_id THEN [error |-> "none", match |-> FALSE]
    ELSE IF payload.biz_code = "missing" THEN [error |-> "KeyError", match |-> FALSE]
    ELSE IF payload.biz_code # "device_data" THEN [error |-> "none", match |-> FALSE]
    ELSE IF payload.message_type = "missing"
    THEN [error |-> "KeyError", match |-> FALSE]
    ELSE [error |-> "none", match |-> payload.message_type = "thing_property"]

\* variant: the availability filter without the device_id test
FogAvailabilityFilterAnyDevice(device_id, payload) ==
    IF payload.biz_code = "missing" THEN [error |-> "KeyError", match |-> FALSE]
    ELSE [error |-> "none", match |-> payload.biz_code = "device_status"]

\* the lambda of subscribe_availability_change, lines 286-287
FogAvailabilityFilter(device_id, payload) ==
    IF payload.device_id = "missing" THEN [error |-> "KeyError", match |-> FALSE]
    ELSE IF payload.device_id # device_id THEN [error |-> "none", match |-> FALSE]
    ELSE IF payload.biz_code = "missing" THEN [error |-> "KeyError", match |-> FALSE]
    ELSE [error |-> "none", match |-> payload.biz_code = "device_status"]

\* what the lambda passes to the user's callback: a DeyeDeviceState of
\* data.properties, or data.status == "online"
FogCallbackValue(kind, payload) ==
    IF kind = "state" THEN "state"
    ELSE IF payload.status = "online" THEN "True" ELSE "False"

\* the lambda registered by subscribe_state_change / subscribe_availability_change
FogLambda(closure, payload) ==
    LET f == IF closure.kind = "state"
             THEN FogStateFilter(closure.device, payload)
             ELSE FogAvailabilityFilter(closure.device, payload)
    IN  IF f.error # "none" THEN [invoked |-> FALSE, value |-> "", error |-> f.error]
        ELSE IF ~f.match THEN [invoked |-> FALSE, value |-> "", error |-> "none"]
        ELSE IF closure.kind = "availability" /\ payload.status = "missing"
        THEN [invoked |-> FALSE, value |-> "", error |-> "KeyError"]
        ELSE [invoked |-> TRUE, value |-> FogCallbackValue(closure.kind, payload),
              error |-> "none"]

\* a cloud API call of the Fog client for a device, with the error it raised
FogApiCall(op, device_id, apiError) == Call(op, device_id, apiError)

\* variant: the command goes out over MQTT as on the Classic platform
FogPublishCallsOverMqtt(isConnected, device_id, apiError) ==
    IF isConnected THEN <<NetPublish(FogTopic, device_id)>> ELSE <<>>

\* DeyeFogMqttClient.publish_command, lines 299-301
FogPublishCalls(isConnected, device_id, apiError) ==
    <<FogApiCall("set_fog_platform_device_properties", device_id, apiError)>>

\* DeyeFogMqttClient.query_device_state, lines 307-309
FogQueryCalls(isConnected, device_id, apiError) ==
    <<FogApiCall("get_fog_platform_device_properties", device_id, apiError)>>

\* subscribe_state_change / subscribe_availability_change -> _subscribe_topic
fog_subscribe(kind, device_id) ==
    /\ ~loopBlocked
    /\ EndpointKnown
    /\ Load < MaxLoad
    /\ subscribers' =
          SubscribersAfterSubscribe(subscribers, FogTopic, Len(closures) + 1)
    /\ mqttCalls' = SubscribeCalls(connected, subscribers, FogTopic)
    /\ brokerSubs' = BrokerAfter(brokerSubs, mqttCalls')
    /\ closures' = Append(closures,
          [topic |-> FogTopic, query |-> 0, kind |-> kind, device |-> device_id])
    /\ lastOp' = Op("subscribe", FogTopic, Len(closures) + 1, connected,
                    Cardinality(Callbacks(subscribers, FogTopic)), "", "none")
    /\ UNCHANGED <<raceVars, api, codec, connected, ioPc, pending_commands, loopQueue,
                   loopBlocked, connectPc, refreshPc, mqttCreds, queries>>

\* _mqtt_on_message of the Fog client
fog_mqtt_on_message(payload) ==
    /\ Load + Cardinality(Callbacks(subscribers, FogTopic)) <= MaxLoad
    /\ Dispatch(FogTopic, FogProcessMessagePayload(payload))

\* the event loop runs the oldest handed-off lambda
fog_loop_run ==
    /\ ~loopBlocked
    /\ loopQueue # <<>>
    /\ loopQueue' = Tail(loopQueue)
    /\ LET e == Head(loopQueue)
           r == FogLambda(closures[e.reg], FogDoc(e.arg))
       IN  lastOp' = Op("fog_callback", FogTopic, e.reg, connected,
                        IF r.invoked THEN 1 ELSE 0, r.value, r.error)
    /\ mqttCalls' = <<>>
    /\ UNCHANGED <<raceVars, api, codec, connected, ioPc, subscribers, pending_commands,
                   brokerSubs, closures, loopBlocked, connectPc, refreshPc,
                   mqttCreds, queries>>

\* DeyeFogMqttClient.publish_command: the cloud API call returns or raises
fog_publish_command(device_id, apiError) ==
    /\ ~loopBlocked
    /\ mqttCalls' = FogPublishCalls(connected, device_id, apiError)
    /\ lastOp' = Op("fog_publish_command", "", 0, connected, 0, device_id, apiError)
    /\ lastOp' # lastOp
    /\ UNCHANGED <<raceVars, api, codec, connected, ioPc, subscribers, pending_commands,
                   brokerSubs, closures, loopQueue, loopBlocked, connectPc,
                   refreshPc, mqttCreds, queries>>

\* DeyeFogMqttClient.query_device_state: the cloud API call returns or raises
fog_query_device_state(device_id, apiError) ==
    /\ ~loopBlocked
    /\ mqttCalls' = FogQueryCalls(connected, device_id, apiError)
    /\ lastOp' = Op("fog_query_device_state", "", 0, connected, 0, device_id,
                    apiError)
    /\ lastOp' # lastOp
    /\ UNCHANGED <<raceVars, api, codec, connected, ioPc, subscribers, pending_commands,
                   brokerSubs, closures, loopQueue, loopBlocked, connectPc,
                   refreshPc, mqttCreds, queries>>

\* commands and queries of a Fog client that connects, subscribes,
\* unsubscribes and disconnects
FogNext ==
    \/ connect
    \/ \E e \in {"none"} \cup ApiErrors : connect_resume(e)
    \/ transport_connected
    \/ mqtt_on_connect
    \/ disconnect
    \/ mqtt_on_disconnect(0)
    \/ attribute_error("subscribe")
    \/ \E k \in {"state", "availability"} : fog_subscribe(k, "devA")
    \/ \E r \in 1..MaxLoad : unsubscribe_fn(r)
    \/ \E d \in Devices, e \in {"none"} \cup ApiErrors : fog_publish_command(d, e)
    \/ \E d \in Devices, e \in {"none"} \cup ApiErrors :
          fog_query_device_state(d, e)

FogSpec == Init /\ [][FogNext]_vars

\* message dispatch of a Fog client that connects once and stays connected
FogDispatchNext ==
    \/ connect
    \/ connect_resume("none")
    \/ transport_connected
    \/ mqtt_on_connect
    \/ \E k \in {"state", "availability"}, d \in Devices : fog_subscribe(k, d)
    \/ \E r \in 1..MaxLoad : unsubscribe_fn(r)
    \/ \E p \in FogPayloads : fog_mqtt_on_message(p)
    \/ fog_loop_run

FogDispatchSpec == Init /\ [][FogDispatchNext]_vars

\* ====================================================== interleavings ====
\* _mqtt_on_connect and publish_command statement by statement: the network
\* thread and the event loop thread share self._subscribers and
\* self._pending_commands without a lock, and the interpreter may switch
\* threads between any two statements. Commands are numbered in the order
\* of the publish_command calls.

\* next() of the dict iterator: RuntimeError when the dict changed size
DictChangedSize(iter, d) == Len(d) # iter.size

\* _mqtt_on_connect, lines 67-68: one turn of the loop over
\* self._subscribers.items() up to the test of len(callbacks), or its end
on_connect_scan ==
    /\ ioPc = "on_connect"
    /\ ioIter.over \in {"none", "subscribers"}
    /\ LET iter == IF ioIter.over = "none"
                   THEN [over |-> "subscribers", index |-> 0,
                         size |-> Len(subscribers)]
                   ELSE ioIter
       IN
       IF DictChangedSize(iter, subscribers)
       THEN /\ ioPc' = "dead"
            /\ ioIter' = NoIter
            /\ mqttCalls' = <<>>
            /\ lastOp' = Op("on_connect_scan", "", 0, connected, iter.index,
                            "", "RuntimeError")
       ELSE IF iter.index < Len(subscribers)
       THEN /\ ioPc' = ioPc
            /\ ioIter' = [iter EXCEPT
                  !.index = @ + 1,
                  !.over = IF NeedsResubscribe(subscribers[iter.index + 1])
                           THEN "subscribe" ELSE "subscribers"]
            /\ mqttCalls' = <<>>
            /\ lastOp' = Op("on_connect_scan", subscribers[iter.index + 1].topic,
                            0, connected, iter.index, "", "none")
       ELSE /\ ioPc' = ioPc
            /\ ioIter' = [over |-> "len(pending_commands)", index |-> 0, size |-> 0]
            /\ mqttCalls' = <<>>
            /\ lastOp' = Op("on_connect_scan", "", 0, connected, iter.index,
                            "", "none")
    /\ UNCHANGED <<api, codec, connected, subscribers, pending_commands, brokerSubs,
                   closures, loopQueue, loopBlocked, connectPc, refreshPc,
                   mqttCreds, queries, loopPc, published, issued>>

\* _mqtt_on_connect, line 69: self._mqtt.subscribe(topic) for the entry whose
\* callbacks were found non-empty
on_connect_subscribe ==
    /\ ioPc = "on_connect"
    /\ ioIter.over = "subscribe"
    /\ ioIter' = [ioIter EXCEPT !.over = "subscribers"]
    /\ mqttCalls' = <<NetSubscribe(subscribers[ioIter.index].topic)>>
    /\ brokerSubs' = BrokerAfter(brokerSubs, mqttCalls')
    /\ lastOp' = Op("on_connect_subscribe", subscribers[ioIter.index].topic,
                    0, connected, ioIter.index, "", "none")
    /\ UNCHANGED <<api, codec, connected, ioPc, subscribers, pending_commands,
                   closures, loopQueue, loopBlocked, connectPc, refreshPc,
                   mqttCreds, queries, loopPc, published, issued>>

\* _mqtt_on_connect, lines 70-72: the test of len(self._pending_commands),
\* which skips the loop and the clear when the list is empty; then one turn
\* of the loop over the list (a list iterator sees what is appended while it
\* runs), or its end
on_connect_flush ==
    /\ ioPc = "on_connect"
    /\ ioIter.over \in {"len(pending_commands)", "pending_commands"}
    /\ IF ioIter.over = "len(pending_commands)"
       THEN /\ ioIter' = IF Len(pending_commands) > 0
                         THEN [ioIter EXCEPT !.over = "pending_commands"]
                         ELSE NoIter
            /\ ioPc' = IF Len(pending_commands) > 0 THEN ioPc ELSE "running"
            /\ mqttCalls' = <<>>
            /\ published' = published
       ELSE IF ioIter.index < Len(pending_commands)
       THEN /\ ioIter' = [ioIter EXCEPT !.index = @ + 1]
            /\ ioPc' = ioPc
            /\ mqttCalls' = FlushCalls(<<pending_commands[ioIter.index + 1]>>)
            /\ published' = Append(published, pending_commands[ioIter.index + 1][2])
       ELSE /\ ioIter' = [ioIter EXCEPT !.over = "exhausted"]
            /\ ioPc' = ioPc
            /\ mqttCalls' = <<>>
            /\ published' = published
    /\ lastOp' = Op("on_connect_flush", CommandTopic, 0, connected,
                    ioIter.index, "", "none")
    /\ UNCHANGED <<api, codec, connected, subscribers, pending_commands,
                   brokerSubs, closures, loopQueue, loopBlocked, connectPc,
                   refreshPc, mqttCreds, queries, loopPc, issued>>

\* _mqtt_on_connect, line 73: self._pending_commands.clear()
on_connect_clear ==
    /\ ioPc = "on_connect"
    /\ ioIter.over = "exhausted"
    /\ pending_commands' = PendingAfterFlush(pending_commands)
    /\ ioIter' = NoIter
    /\ ioPc' = "running"
    /\ mqttCalls' = <<>>
    /\ lastOp' = Op("on_connect_clear", "", 0, connected,
                    Len(pending_commands), "", "none")
    /\ UNCHANGED <<api, codec, connected, subscribers, brokerSubs, closures,
                   loopQueue, loopBlocked, connectPc, refreshPc, mqttCreds,
                   queries, loopPc, published, issued>>

\* publish_command, line 210: self._mqtt.is_connected() is evaluated
publish_command_check ==
    /\ ~loopBlocked
    /\ EndpointKnown
    /\ loopPc.op = "idle"
    /\ issued < MaxCommands
    /\ issued' = issued + 1
    /\ loopPc' = [op |-> "publish_command", command |-> issued + 1,
                  is_connected |-> connected]
    /\ mqttCalls' = <<>>
    /\ lastOp' = Op("publish_command_check", CommandTopic, 0, connected,
                    Len(pending_commands), "", "none")
    /\ UNCHANGED <<api, codec, connected, ioPc, subscribers, pending_commands,
                   brokerSubs, closures, loopQueue, loopBlocked, connectPc,
                   refreshPc, mqttCreds, queries, ioIter, published>>

\* publish_command, lines 211-213: the branch chosen by the check
publish_command_act ==
    /\ loopPc.op = "publish_command"
    /\ mqttCalls' = PublishCalls(loopPc.is_connected, loopPc.command)
    /\ pending_commands' =
          PendingAfterPublish(loopPc.is_connected, pending_commands, loopPc.command)
    /\ published' = published \o
          [i \in 1..Len(mqttCalls') |-> mqttCalls'[i].payload]
    /\ loopPc' = Idle
    /\ lastOp' = Op("publish_command", CommandTopic, 0, loopPc.is_connected,
                    Len(pending_commands), "", "none")
    /\ UNCHANGED <<api, codec, connected, ioPc, subscribers, brokerSubs, closures,
                   loopQueue, loopBlocked, connectPc, refreshPc, mqttCreds,
                   queries, ioIter, issued>>

\* the other calls of the event loop thread start when publish_command is over
RaceNext ==
    \/ loopPc = Idle /\ connect
    \/ loopPc = Idle /\ connect_resume("none")
    \/ transport_connected
    \/ on_connect_scan
    \/ on_connect_subscribe
    \/ on_connect_flush
    \/ on_connect_clear
    \/ publish_command_check
    \/ publish_command_act
    \/ \E t \in Topics : loopPc = Idle /\ subscribe_topic(t)
    \/ \E r \in 1..MaxLoad : loopPc = Idle /\ unsubscribe_fn(r)

RaceSpec == Init /\ [][RaceNext]_vars

\* ============================================================= codec ====
\* src/libdeye/device_command.py and src/libdeye/device_state.py: a command
\* becomes 10 bytes, a hex string of the Classic platform becomes a state.

clientVars == <<connected, ioPc, subscribers, pending_commands, brokerSubs,
                closures, loopQueue, loopBlocked, connectPc, refreshPc,
                mqttCreds, queries, mqttCalls, lastOp, raceVars>>

\* ---- a Fog property map is a function from the keys it carries to ints
\* state[key]: KeyError when the key is absent
RequiredKeys ==
    {"NegativeIon", "WaterPump", "Power", "SwingingWind", "KeyLock",
     "Demisting", "WaterTank", "Fan"}

\* state.get(key, default)
GetOr(state, key, default) ==
    IF key \in DOMAIN state THEN state[key] ELSE default

\* variant: only the value 1 read as true
BoolIsOne(value) == value = 1

\* bool(value) of an int
Bool(value) == value # 0

\* variant: a missing WindSpeed read as the command default LOW
FogFanSpeedLow(state) == GetOr(state, "WindSpeed", 1)

\* _parse_state_fog, line 91: state.get("WindSpeed", DeyeFanSpeed.STOPPED)
FogFanSpeed(state) == GetOr(state, "WindSpeed", 0)

\* DeyeDeviceState(state) for a property map: _parse_state_fog, statement
\* by statement; the first statement that raises ends it
ParseStateFog(state) ==
    IF \E key \in RequiredKeys : key \notin DOMAIN state
    THEN [error |-> "KeyError"]
    ELSE IF FogFanSpeed(state) \notin DeyeFanSpeed THEN [error |-> "ValueError"]
    ELSE IF GetOr(state, "Mode", 6) \notin DeyeDeviceMode
    THEN [error |-> "ValueError"]
    ELSE [error |-> "none",
          state |->
            [anion_switch |-> Bool(state["NegativeIon"]),
             water_pump_switch |-> Bool(state["WaterPump"]),
             power_switch |-> Bool(state["Power"]),
             oscillating_switch |-> Bool(state["SwingingWind"]),
             child_lock_switch |-> Bool(state["KeyLock"]),
             defrosting |-> Bool(state["Demisting"]),
             water_tank_full |-> Bool(state["WaterTank"]),
             fan_running |-> Bool(state["Fan"]),
             fan_speed |-> FogFanSpeed(state),
             mode |-> GetOr(state, "Mode", 6),
             target_humidity |-> GetOr(state, "SetHumidity", 60),
             environment_temperature |->
                GetOr(state, "CurrentAmbientTemperature", 27),
             environment_humidity |->
                GetOr(state, "CurrentEnvironmentalHumidity", 27),
             _electromagnetic_state |-> FALSE,
             _press_state |-> FALSE,
             _environment_degree |-> FALSE,
             _poweroff_switch |-> FALSE,
             _poweron_switch |-> FALSE,
             _coil_temperature |-> GetOr(state, "CurrentCoilTemperature", 27),
             _exhaust_temperature |->
                GetOr(state, "CurrentExhaustTemperature", 27)]]

\* variant: the command built without the fan speed, which then is the
\* default of DeyeDeviceCommand.__init__
ToCommandDefaultSpeed(state) ==
    [anion_switch |-> state.anion_switch,
     water_pump_switch |-> state.water_pump_switch,
     power_switch |-> state.power_switch,
     oscillating_switch |-> state.oscillating_switch,
     child_lock_switch |-> state.child_lock_switch,
     fan_speed |-> 1,
     mode |-> state.mode,
     target_humidity |-> state.target_humidity]

\* DeyeDeviceState.to_command()
ToCommand(state) ==
    [anion_switch |-> state.anion_switch,
     water_pump_switch |-> state.water_pump_switch,
     power_switch |-> state.power_switch,
     oscillating_switch |-> state.oscillating_switch,
     child_lock_switch |-> state.child_lock_switch,
     fan_speed |-> state.fan_speed,
     mode |-> state.mode,
     target_humidity |-> state.target_humidity]

\* int(value) of a bool
IntOf(value) == IF value THEN 1 ELSE 0

\* variant: Mode and WindSpeed carrying each other's value
ToJsonSwapped(c) ==
    [KeyLock |-> IntOf(c.child_lock_switch), Mode |-> c.fan_speed,
     Power |-> IntOf(c.power_switch), WindSpeed |-> c.mode,
     SetHumidity |-> c.target_humidity,
     NegativeIon |-> IntOf(c.anion_switch),
     SwingingWind |-> IntOf(c.oscillating_switch),
     WaterPump |-> IntOf(c.water_pump_switch)]

\* DeyeDeviceCommand.to_json()
ToJson(c) ==
    [KeyLock |-> IntOf(c.child_lock_switch), Mode |-> c.mode,
     Power |-> IntOf(c.power_switch), WindSpeed |-> c.fan_speed,
     SetHumidity |-> c.target_humidity,
     NegativeIon |-> IntOf(c.anion_switch),
     SwingingWind |-> IntOf(c.oscillating_switch),
     WaterPump |-> IntOf(c.water_pump_switch)]

\* ---- a value handed to == is an object of some class, with the record of
\* its attributes (none for a str, an int or a list)
Object(class, value) == [class |-> class, value |-> value]

\* variant: the fan speed compared with the other command's mode
CommandEqTypo(self, other) ==
    IF other.class # "DeyeDeviceCommand" THEN FALSE
    ELSE /\ self.anion_switch = other.value.anion_switch
         /\ self.water_pump_switch = other.value.water_pump_switch
         /\ self.power_switch = other.value.power_switch
         /\ self.oscillating_switch = other.value.oscillating_switch
         /\ self.child_lock_switch = other.value.child_lock_switch
         /\ self.fan_speed = other.value.mode
         /\ self.mode = other.value.mode
         /\ self.target_humidity = other.value.target_humidity

\* DeyeDeviceCommand.__eq__
CommandEq(self, other) ==
    IF other.class # "DeyeDeviceCommand" THEN FALSE
    ELSE /\ self.anion_switch = other.value.anion_switch
         /\ self.water_pump_switch = other.value.water_pump_switch
         /\ self.power_switch = other.value.power_switch
         /\ self.oscillating_switch = other.value.oscillating_switch
         /\ self.child_lock_switch = other.value.child_lock_switch
         /\ self.fan_speed = other.value.fan_speed
         /\ self.mode = other.value.mode
         /\ self.target_humidity = other.value.target_humidity

\* variant: the comparison without the last public field
StateEqNoHumidity(self, other) ==
    IF other.class # "DeyeDeviceState" THEN FALSE
    ELSE /\ self.anion_switch = other.value.anion_switch
         /\ self.water_pump_switch = other.value.water_pump_switch
         /\ self.power_switch = other.value.power_switch
         /\ self.oscillating_switch = other.value.oscillating_switch
         /\ self.child_lock_switch = other.value.child_lock_switch
         /\ self.defrosting = other.value.defrosting
         /\ self.water_tank_full = other.value.water_tank_full
         /\ self.fan_running = other.value.fan_running
         /\ self.fan_speed = other.value.fan_speed
         /\ self.mode = other.value.mode
         /\ self.target_humidity = other.value.target_humidity
         /\ self.environment_temperature = other.value.environment_temperature

\* DeyeDeviceState.__eq__
StateEq(self, other) ==
    IF other.class # "DeyeDeviceState" THEN FALSE
    ELSE /\ self.anion_switch = other.value.anion_switch
         /\ self.water_pump_switch = other.value.water_pump_switch
         /\ self.power_switch = other.value.power_switch
         /\ self.oscillating_switch = other.value.oscillating_switch
         /\ self.child_lock_switch = other.value.child_lock_switch
         /\ self.defrosting = other.value.defrosting
         /\ self.water_tank_full = other.value.water_tank_full
         /\ self.fan_running = other.value.fan_running
         /\ self.fan_speed = other.value.fan_speed
         /\ self.mode = other.value.mode
         /\ self.target_humidity = other.value.target_humidity
         /\ self.environment_temperature = other.value.environment_temperature
         /\ self.environment_humidity = other.value.environment_humidity

\* ---- the state strings tried
\* a frame as the device sends it (tests/test_device_state.py):
\* 14 11 <flags> <speed|mode> <target> 00.. <coil> <ambient> <humidity> <exhaust> 00..
RECURSIVE ToHex(_)
ToHex(bytes) ==
    IF bytes = <<>> THEN <<>>
    ELSE <<HexDigits[(Head(bytes) \div 16) + 1], HexDigits[(Head(bytes) % 16) + 1]>>
         \o ToHex(Tail(bytes))

Frame(flags, nibbles, target, ambient, humidity, n) ==
    LET full == <<20, 17, flags \div 256, flags % 256, nibbles, target,
                  0, 0, 0, 0, 0, 0, 0, 0, 64, ambient, humidity, 64>>
                \o [i \in 1..(MaxFrameBytes - 18) |-> 0]
    IN  SubSeq(full, 1, n)

DefaultFrame == Frame(33024, 17, 59, 67, 48, MaxFrameBytes)

\* every setting of the named flag bits, the unnamed bits 5..7 all clear or
\* all set
FlagValues == {v \in 0..65535 : (v \div 32) % 8 \in {0, 7}}

ToLower(str) ==
    [i \in DOMAIN str |->
        IF HexVal(str[i]) >= 10 THEN LowerDigits[HexVal(str[i]) - 9] ELSE str[i]]

InsertAt(str, k, ch) == SubSeq(str, 1, k - 1) \o <<ch>> \o SubSeq(str, k, Len(str))

\* frames carrying every setting of the five switches, the fan speed and
\* the mode of a command
CommandFrames(n) ==
    {ToHex(Frame(f, 16 * s + m, t, 67, 48, n)) :
        f \in {a + 2 * w + 256 * p + 512 * o + 1024 * l :
                  a \in 0..1, w \in 0..1, p \in 0..1, o \in 0..1, l \in 0..1},
        s \in DeyeFanSpeed, m \in DeyeDeviceMode, t \in {0, 60, 255}}

StateStrings(n) ==
    {ToHex(Frame(f, 17, 59, 67, 48, n)) : f \in FlagValues}
    \cup {ToHex(Frame(33024, x, 59, 67, 48, n)) :
             x \in {16 * s + m : s \in 0..5, m \in 0..7}}
    \cup {ToHex(Frame(2048, 17, t, a, h, n)) :
             t \in {0, 59, 255}, a \in {0, 39, 40, 67, 255}, h \in {0, 48, 255}}
    \cup {ToHex(Frame(33024, 17, 59, 67, 48, k)) : k \in 0..n}
    \cup {SubSeq(ToHex(DefaultFrame), 1, k) : k \in {9, 2 * n - 1}}
    \cup {[ToHex(DefaultFrame) EXCEPT ![k] = "G"] : k \in {1, 9, 2 * n}}
    \cup {InsertAt(ToHex(DefaultFrame), k, " ") : k \in {1, 2, 3, 11, 2 * n + 1}}
    \cup {ToLower(ToHex(Frame(3843, 17, 59, 67, 48, n)))}
    \cup CommandFrames(n)

\* ---- the property maps tried
OptionalKeys ==
    {"WindSpeed", "Mode", "SetHumidity", "CurrentAmbientTemperature",
     "CurrentEnvironmentalHumidity"}
DiagnosticKeys == {"CurrentCoilTemperature", "CurrentExhaustTemperature"}

\* the properties of tests/test_device_state.py, and a second set holding
\* the enum members 0, a humidity of 0 and a temperature below zero
OptionalValues ==
    {[WindSpeed |-> 2, Mode |-> 3, SetHumidity |-> 45,
      CurrentAmbientTemperature |-> 22, CurrentEnvironmentalHumidity |-> 55,
      CurrentCoilTemperature |-> 20, CurrentExhaustTemperature |-> 30],
     [WindSpeed |-> 0, Mode |-> 0, SetHumidity |-> 0,
      CurrentAmbientTemperature |-> -5, CurrentEnvironmentalHumidity |-> 0,
      CurrentCoilTemperature |-> -10, CurrentExhaustTemperature |-> 0]}

Restrict(map, keys) == [k \in keys |-> map[k]]

MinimalProperties == [k \in RequiredKeys |-> IF k = "Power" THEN 1 ELSE 0]

FogMaps ==
    [RequiredKeys -> {0, 1}]
    \cup {MinimalProperties @@ Restrict(v, keys) :
             v \in OptionalValues, keys \in SUBSET OptionalKeys}
    \cup {MinimalProperties @@ Restrict(v, OptionalKeys \cup keys) :
             v \in OptionalValues, keys \in SUBSET DiagnosticKeys}
    \cup {Restrict(MinimalProperties, RequiredKeys \ {k}) : k \in RequiredKeys}
    \cup {[k \in RequiredKeys |-> 2]}
    \cup {MinimalProperties @@ [WindSpeed |-> 5], MinimalProperties @@ [Mode |-> 7]}

\* ---- a Classic frame and a property map made of the same thirteen values
PublicBooleans ==
    {"anion_switch", "water_pump_switch", "power_switch", "oscillating_switch",
     "child_lock_switch", "defrosting", "water_tank_full", "fan_running"}
PublicFields ==
    PublicBooleans
    \cup {"fan_speed", "mode", "target_humidity", "environment_temperature",
          "environment_humidity"}
DiagnosticBooleans ==
    {"_electromagnetic_state", "_press_state", "_environment_degree",
     "_poweroff_switch", "_poweron_switch"}
DiagnosticFields ==
    DiagnosticBooleans \cup {"_coil_temperature", "_exhaust_temperature"}

Numbers(fan_speed, mode, target, temperature, humidity) ==
    [fan_speed |-> fan_speed, mode |-> mode, target_humidity |-> target,
     environment_temperature |-> temperature, environment_humidity |-> humidity]

ObservedValues ==
    {b @@ Numbers(1, 1, 59, 27, 48) : b \in [PublicBooleans -> BOOLEAN]}
    \cup {[k \in PublicBooleans |-> k = "power_switch"] @@ Numbers(s, m, 59, 27, 48) :
             s \in DeyeFanSpeed, m \in DeyeDeviceMode}
    \cup {[k \in PublicBooleans |-> k = "fan_running"] @@ Numbers(0, 6, t, a, h) :
             t \in {0, 60, 255}, a \in {-40, -1, 0, 27, 215}, h \in {0, 27, 255}}

FrameOf(v, unnamed, n) ==
    Frame(IntOf(v.anion_switch) + 2 * IntOf(v.water_pump_switch)
            + 256 * IntOf(v.power_switch) + 512 * IntOf(v.oscillating_switch)
            + 1024 * IntOf(v.child_lock_switch) + 8192 * IntOf(v.defrosting)
            + 16384 * IntOf(v.water_tank_full) + 32768 * IntOf(v.fan_running)
            + unnamed,
          16 * v.fan_speed + v.mode, v.target_humidity,
          v.environment_temperature + 40, v.environment_humidity, n)

PropertiesOf(v, on) ==
    [NegativeIon |-> on * IntOf(v.anion_switch),
     WaterPump |-> on * IntOf(v.water_pump_switch),
     Power |-> on * IntOf(v.power_switch),
     SwingingWind |-> on * IntOf(v.oscillating_switch),
     KeyLock |-> on * IntOf(v.child_lock_switch),
     Demisting |-> on * IntOf(v.defrosting),
     WaterTank |-> on * IntOf(v.water_tank_full),
     Fan |-> on * IntOf(v.fan_running),
     WindSpeed |-> v.fan_speed, Mode |-> v.mode,
     SetHumidity |-> v.target_humidity,
     CurrentAmbientTemperature |-> v.environment_temperature,
     CurrentEnvironmentalHumidity |-> v.environment_humidity]

\* another value for a field
Other(state, field) ==
    IF field \in PublicBooleans \cup DiagnosticBooleans THEN ~state[field]
    ELSE IF field = "fan_speed" THEN (state[field] + 1) % 5
    ELSE IF field = "mode" THEN (state[field] + 1) % 7
    ELSE state[field] + 1

FramePairs(n) ==
    {[classic |-> ToHex(FrameOf(v, unnamed, n)), fog |-> PropertiesOf(v, on)] :
        v \in ObservedValues, unnamed \in {0, 2076}, on \in {1, 2}}
    \cup {[classic |-> ToHex(FrameOf(v, 0, n)),
            fog |-> PropertiesOf(v, 1) @@ Restrict(d, DiagnosticKeys)] :
             v \in {Numbers(1, 1, 59, 27, 48) @@ [k \in PublicBooleans |-> TRUE]},
             d \in OptionalValues}
    \cup {[classic |-> ToHex(FrameOf(v, 0, n)),
            fog |-> PropertiesOf([v EXCEPT ![f] = Other(v, f)], 1)] :
             v \in {Numbers(1, 1, 59, 27, 48) @@ [k \in PublicBooleans |-> FALSE]},
             f \in PublicFields}

\* ---- the objects compared
StateObjects ==
    {ParseStateClassic(ToHex(DefaultFrame)).state,
     ParseStateFog(MinimalProperties).state}

AttrSets ==
    {{f} : f \in PublicFields \cup DiagnosticFields}
    \cup {{f, g} : f \in PublicFields, g \in PublicFields \cup DiagnosticFields}
    \cup {DiagnosticFields, PublicFields, {}}

SetAttrs(state, fields) ==
    [f \in DOMAIN state |-> IF f \in fields THEN Other(state, f) ELSE state[f]]

EqOperands ==
    {[self |-> a, other |-> Object("DeyeDeviceState", SetAttrs(a, fields))] :
        a \in StateObjects, fields \in AttrSets}
    \cup {[self |-> a, other |-> Object("DeyeDeviceState", b)] :
             a \in StateObjects, b \in StateObjects}
    \cup {[self |-> a, other |-> Object("DeyeDeviceCommand", ToCommand(a))] :
             a \in StateObjects}
    \cup {[self |-> a, other |-> Object("dict", Restrict(a, PublicFields))] :
             a \in StateObjects}
    \cup {[self |-> a, other |-> o] :
             a \in StateObjects,
             o \in {Object("str", <<>>), Object("int", <<>>),
                    Object("list", <<>>)}}

\* ---- product features: const.py, utils.py ----

\* PRODUCT_FEATURE_CONFIG, const.py lines 58-424: the entries of 612S, 8220C,
\* E12A3 and U20A3 out of the 31; every key of the table is a product id of 32
\* hex digits, none is "default"
PRODUCT_FEATURE_CONFIG ==
    ("07dddba41c3011e8829100163e0f811e" :>
        [mode |-> <<>>, fan_speed |-> <<1, 3>>, oscillating |-> FALSE,
         water_pump |-> FALSE])
    @@ ("441480dcf29611eca05a0242ac480009" :>
        [mode |-> <<0, 3>>, fan_speed |-> <<1, 3>>, max_target_humidity |-> 90,
         anion |-> FALSE, oscillating |-> FALSE, water_pump |-> FALSE])
    @@ ("c2c2d92c049f11e8829100163e0f811e" :>
        [mode |-> <<0, 1>>, fan_speed |-> <<>>, anion |-> FALSE,
         oscillating |-> FALSE, water_pump |-> FALSE])
    @@ ("20eae2ea268511e8829100163e0f811e" :>
        [oscillating |-> FALSE, water_pump |-> FALSE])

\* const.get_product_feature_config, lines 429-448
DefaultProductConfig ==
    [mode |-> <<0, 1, 2, 3, 6>>, fan_speed |-> <<1, 2, 3, 4>>,
     min_target_humidity |-> 25, max_target_humidity |-> 80,
     anion |-> TRUE, oscillating |-> TRUE, water_pump |-> TRUE]

\* Python's a | b on dicts: the keys of both, the value of b where b has one
DictOr(a, b) ==
    [k \in DOMAIN a \cup DOMAIN b |-> IF k \in DOMAIN b THEN b[k] ELSE a[k]]

\* table[key]: KeyError when the key is absent
Lookup(table, key) ==
    IF key \in DOMAIN table
    THEN [error |-> "none", value |-> table[key]]
    ELSE [error |-> "KeyError", value |-> <<>>]

\* const.get_product_feature_config, lines 427-452
ConstGetProductFeatureConfig(product_id) ==
    LET product_specific == Lookup(PRODUCT_FEATURE_CONFIG, product_id) IN
    IF product_specific.error = "none"
    THEN [error |-> "none",
          value |-> DictOr(DefaultProductConfig, product_specific.value)]
    ELSE [error |-> "none", value |-> DefaultProductConfig]

\* utils.get_product_feature_config, lines 8-15: the default is looked up in
\* the table, before the try
UtilsGetProductFeatureConfig(product_id) ==
    LET default == Lookup(PRODUCT_FEATURE_CONFIG, "default")
        product_specific == Lookup(PRODUCT_FEATURE_CONFIG, product_id)
    IN  IF default.error # "none" THEN default
        ELSE IF product_specific.error = "none"
        THEN [error |-> "none",
              value |-> DictOr(default.value, product_specific.value)]
        ELSE [error |-> "none", value |-> default.value]

\* product ids: those of the table, the two strings of test_utils.py
ProductIds == DOMAIN PRODUCT_FEATURE_CONFIG \cup {"default", "invalid id"}

CodecInputs(n) ==
    {[op |-> "command", input |-> c, output |-> [error |-> "none"]] :
        c \in Commands}
    \cup {[op |-> "state", input |-> str, output |-> [error |-> "none"]] :
             str \in StateStrings(n)}
    \cup {[op |-> "properties", input |-> m, output |-> [error |-> "none"]] :
             m \in FogMaps}
    \cup {[op |-> "frame_and_properties", input |-> pair,
            output |-> [error |-> "none"]] : pair \in FramePairs(n)}
    \cup {[op |-> "operands", input |-> pair, output |-> [error |-> "none"]] :
             pair \in EqOperands}
    \cup {[op |-> "product_id", input |-> [product_id |-> id],
            output |-> [error |-> "none"]] : id \in ProductIds}

CodecInit ==
    /\ ClientInit
    /\ codec \in CodecInputs(MaxFrameBytes)
    /\ api = NoApi

\* DeyeDeviceCommand.to_bytes()
to_bytes ==
    /\ codec.op = "command"
    /\ codec' = [op |-> "to_bytes", input |-> codec.input,
                 output |-> ToBytes(codec.input)]
    /\ UNCHANGED <<clientVars, api>>

\* DeyeDeviceState(state) for a state string
parse_state_classic ==
    /\ codec.op = "state"
    /\ codec' = [op |-> "parse_state_classic", input |-> codec.input,
                 output |-> ParseStateClassic(codec.input)]
    /\ UNCHANGED <<clientVars, api>>

\* DeyeDeviceState(state) for a property map
parse_state_fog ==
    /\ codec.op = "properties"
    /\ codec' = [op |-> "parse_state_fog", input |-> codec.input,
                 output |-> ParseStateFog(codec.input)]
    /\ UNCHANGED <<clientVars, api>>

\* DeyeDeviceCommand.to_json()
to_json ==
    /\ codec.op = "command"
    /\ codec' = [op |-> "to_json", input |-> codec.input,
                 output |-> [error |-> "none", json |-> ToJson(codec.input)]]
    /\ UNCHANGED <<clientVars, api>>

\* the states whose attributes are assigned after parsing
AssignedStrings ==
    {ToHex(Frame(2048, 17, t, a, h, MaxFrameBytes)) :
        t \in {0, 59, 255}, a \in {0, 39, 40, 67, 255}, h \in {0, 48, 255}}

CommandFields ==
    {"anion_switch", "water_pump_switch", "power_switch", "oscillating_switch",
     "child_lock_switch", "fan_speed", "mode", "target_humidity"}
AssignedFields ==
    {{f} : f \in PublicFields \cup DiagnosticFields}
    \cup {CommandFields, PublicFields \ CommandFields}

\* state.<field> = value for some fields of a parsed state
set_attr(fields) ==
    /\ codec.op \in {"parse_state_classic", "parse_state_fog"}
    /\ codec.output.error = "none"
    /\ codec.op = "parse_state_classic" => codec.input \in AssignedStrings
    /\ codec' = [codec EXCEPT
                    !.op = "set_attr",
                    !.output.state = SetAttrs(codec.output.state, fields)]
    /\ UNCHANGED <<clientVars, api>>

\* state.to_command(): the state before, the state after and the command
to_command ==
    /\ codec.op \in {"parse_state_classic", "parse_state_fog", "set_attr"}
    /\ codec.output.error = "none"
    /\ codec' = [op |-> "to_command", input |-> codec.input,
                 output |-> [error |-> "none", source |-> codec.op,
                             before |-> codec.output.state,
                             state |-> codec.output.state,
                             command |-> ToCommand(codec.output.state)]]
    /\ UNCHANGED <<clientVars, api>>

\* self == other
state_eq ==
    /\ codec.op = "operands"
    /\ codec' = [op |-> "state_eq", input |-> codec.input,
                 output |-> [error |-> "none",
                             equal |-> StateEq(codec.input.self, codec.input.other)]]
    /\ UNCHANGED <<clientVars, api>>

\* DeyeDeviceState(frame) == DeyeDeviceState(properties)
decode_both ==
    /\ codec.op = "frame_and_properties"
    /\ LET classic == ParseStateClassic(codec.input.classic)
           fog == ParseStateFog(codec.input.fog)
       IN  codec' =
             [op |-> "decode_both", input |-> codec.input,
              output |->
                IF classic.error # "none" THEN [error |-> classic.error]
                ELSE IF fog.error # "none" THEN [error |-> fog.error]
                ELSE [error |-> "none", classic |-> classic.state,
                      fog |-> fog.state,
                      equal |-> StateEq(classic.state,
                                        Object("DeyeDeviceState", fog.state)),
                      equal_reflected |->
                          StateEq(fog.state,
                                  Object("DeyeDeviceState", classic.state))]]
    /\ UNCHANGED <<clientVars, api>>

\* DeyeDeviceState(command.to_bytes().hex()).to_command() == command
decode_encoded ==
    /\ codec.op = "to_bytes"
    /\ codec.output.error = "none"
    /\ LET hex == ToLower(ToHex(codec.output.bytes))
           decoded == ParseStateClassic(hex)
       IN  codec' =
             [op |-> "decode_encoded", input |-> codec.input,
              output |->
                IF decoded.error # "none"
                THEN [error |-> decoded.error, hex |-> hex]
                ELSE [error |-> "none", hex |-> hex,
                      command |-> ToCommand(decoded.state),
                      equal |-> CommandEq(ToCommand(decoded.state),
                                          Object("DeyeDeviceCommand", codec.input))]]
    /\ UNCHANGED <<clientVars, api>>

\* libdeye.utils.get_product_feature_config(product_id)
utils_get_product_feature_config ==
    /\ codec.op = "product_id"
    /\ codec' = [op |-> "utils.get_product_feature_config", input |-> codec.input,
                 output |-> UtilsGetProductFeatureConfig(codec.input.product_id)]
    /\ UNCHANGED <<clientVars, api>>

\* libdeye.const.get_product_feature_config(product_id)
const_get_product_feature_config ==
    /\ codec.op = "product_id"
    /\ codec' = [op |-> "const.get_product_feature_config", input |-> codec.input,
                 output |-> ConstGetProductFeatureConfig(codec.input.product_id)]
    /\ UNCHANGED <<clientVars, api>>

CodecNext ==
    \/ to_bytes
    \/ parse_state_classic
    \/ parse_state_fog
    \/ to_json
    \/ \E fields \in AssignedFields : set_attr(fields)
    \/ to_command
    \/ state_eq
    \/ decode_both
    \/ decode_encoded
    \/ utils_get_product_feature_config
    \/ const_get_product_feature_config

CodecSpec == CodecInit /\ [][CodecNext]_vars

\* ========================================================= cloud API ====
\* src/libdeye/cloud_api.py: the auth token of DeyeCloudApi, its refresh and
\* the requests that carry it.  One coroutine of the object is followed from
\* await to await, as the command line tool uses it: one call at a time; the
\* clock moves, and the owner may assign auth_token between two calls.

\* time.time() and the exp claim in seconds; the clock moves in steps of 12 h
DAY == 24 * 60 * 60
ClockStep == 12 * 60 * 60

\* None for user_id and _auth_token_exp
None == -1

\* what jwt.decode(value, options={"verify_signature": False}) returns for the
\* strings that are JWTs, claim by claim (None: the claim is absent)
Jwt ==
    [far     |-> [enduserid |-> 7,    exp |-> 30 * DAY],
     near    |-> [enduserid |-> 7,    exp |-> 3 * ClockStep],
     no_exp  |-> [enduserid |-> 7,    exp |-> None],
     no_user |-> [enduserid |-> None, exp |-> 30 * DAY]]

\* values of auth_token: None, the empty string, a string that is no JWT, JWTs
TokenValues == {"None", "", "garbage"} \cup DOMAIN Jwt

\* `if value:` / `if token:`
Truthy(value) == value \notin {"None", ""}

\* jwt.decode raises DecodeError for a string that is no JWT
Decodable(value) == value \in DOMAIN Jwt

\* the auth_token setter, lines 211-225, statement by statement: the fields
\* after it and the exception that leaves it
AuthTokenSetter(self, value) ==
    LET set == [self EXCEPT !.auth_token = value] IN
    IF ~Truthy(value)
    THEN [self |-> [set EXCEPT !.user_id = None, !.auth_token_exp = None],
          error |-> "none"]
    ELSE IF ~Decodable(value)
    THEN [self |-> [set EXCEPT !.user_id = None, !.auth_token_exp = None],
          error |-> "DeyeCloudApiInvalidAuthError"]
    ELSE IF Jwt[value].enduserid = None
    THEN [self |-> set, error |-> "KeyError"]
    ELSE IF Jwt[value].exp = None
    THEN [self |-> [set EXCEPT !.user_id = Jwt[value].enduserid],
          error |-> "KeyError"]
    ELSE [self |-> [set EXCEPT !.user_id = Jwt[value].enduserid,
                               !.auth_token_exp = Jwt[value].exp],
          error |-> "none"]

\* variant: the refresh goes on without a known expiry
ExpiryUnknownNever(auth_token_exp) == FALSE

\* refresh_token_if_near_expiry, line 262: self._auth_token_exp is None
ExpiryUnknown(auth_token_exp) == auth_token_exp = None

\* refresh_token_if_near_expiry, line 265
StillValid(force, auth_token_exp, now) == ~force /\ auth_token_exp - now > DAY

\* requests of the session: the refresh and the login carry no Authorization
\* header, every other request carries "JWT <auth_token>" when the token is
\* truthy (lines 311-314)
RefreshTokenRequest(token) ==
    [endpoint |-> "refreshToken/", token |-> token, authorization |-> "None"]
LoginRequest == [endpoint |-> "login/", token |-> "None", authorization |-> "None"]
AuthenticatedRequest(token) ==
    [endpoint |-> "mqttInfo/", token |-> "None",
     authorization |-> IF Truthy(token) THEN token ELSE "None"]

\* answers of the server: no answer (aiohttp ClientError), an envelope
\* without meta.code, a code other than 0, code 0 without data.token, code 0
\* with the token
Responses ==
    {[kind |-> k, token |-> "None"] :
        k \in {"ClientError", "no_meta", "bad_code", "no_token"}}
    \cup {[kind |-> "token", token |-> t] : t \in TokenValues}

\* ensure_valid_response_code, lines 48-54, after the ClientError handler
ResponseError(resp) ==
    IF resp.kind \in {"ClientError", "no_meta"} THEN "DeyeCloudApiCannotConnectError"
    ELSE IF resp.kind = "bad_code" THEN "DeyeCloudApiInvalidAuthError"
    ELSE "none"

\* DeyeCloudApi(session, username, password, auth_token): the constructor
\* returns an object when the setter raises nothing
ApiObjects ==
    LET blank == [auth_token |-> "None", user_id |-> None, auth_token_exp |-> None,
                  now |-> 0, pc |-> "idle", caller |-> "none", calls |-> <<>>,
                  last |-> [op |-> "__init__", force |-> FALSE, error |-> "none"]]
    IN  {AuthTokenSetter(blank, v).self :
            v \in {t \in TokenValues : AuthTokenSetter(blank, t).error = "none"}}

ApiInit ==
    /\ ClientInit
    /\ codec = NoCodec
    /\ api \in ApiObjects

Last(op, force, error) == [op |-> op, force |-> force, error |-> error]

\* the coroutine ends: it returns or an exception leaves it
Ends(self, op, error) ==
    [self EXCEPT !.pc = "idle", !.caller = "none", !.calls = <<>>,
                 !.last = Last(op, self.last.force, error)]

\* refresh_token_if_near_expiry has returned: its caller goes on, which for
\* _make_authenticated_request is the request itself (lines 311-322)
Refreshed(self, caller, force) ==
    IF caller = "_make_authenticated_request"
    THEN [self EXCEPT !.pc = "await_request", !.caller = caller,
                      !.calls = <<AuthenticatedRequest(self.auth_token)>>,
                      !.last = Last(caller, force, "none")]
    ELSE [self EXCEPT !.pc = "idle", !.caller = "none", !.calls = <<>>,
                      !.last = Last(caller, force, "none")]

\* refresh_token_if_near_expiry(force) up to its first await, called by the
\* owner or by _make_authenticated_request (line 308)
RefreshStart(self, caller, force) ==
    IF ExpiryUnknown(self.auth_token_exp)
    THEN [Ends(self, caller, "DeyeCloudApiInvalidAuthError") EXCEPT !.last.force = force]
    ELSE IF StillValid(force, self.auth_token_exp, self.now)
    THEN Refreshed(self, caller, force)
    ELSE [self EXCEPT !.pc = "await_refresh", !.caller = caller,
                      !.calls = <<RefreshTokenRequest(self.auth_token)>>,
                      !.last = Last(caller, force, "none")]

\* refresh_token_if_near_expiry, line 286: authenticate() up to its await
AuthenticateStart(self) ==
    [self EXCEPT !.pc = "await_login", !.calls = <<LoginRequest>>]

\* refresh_token_if_near_expiry, lines 273-293, once the server has answered
RefreshResume(self, resp) ==
    LET assigned == AuthTokenSetter(self, resp.token) IN
    IF resp.kind \in {"ClientError", "no_meta"}
    THEN Ends(self, self.caller, ResponseError(resp))
    ELSE IF resp.kind = "bad_code" THEN AuthenticateStart(self)
    ELSE IF resp.kind = "no_token"
    THEN Ends(self, self.caller, "DeyeCloudApiInvalidAuthError")
    ELSE IF ~Truthy(resp.token)
    THEN Refreshed(self, self.caller, self.last.force)
    ELSE IF assigned.error = "none"
    THEN Refreshed(assigned.self, self.caller, self.last.force)
    ELSE IF assigned.error = "DeyeCloudApiInvalidAuthError"
    THEN AuthenticateStart(assigned.self)
    ELSE Ends(assigned.self, self.caller, "DeyeCloudApiInvalidAuthError")

\* authenticate, lines 240-253, once the server has answered, and lines
\* 287-289 of the refresh that called it
AuthenticateResume(self, resp) ==
    LET assigned == AuthTokenSetter(self, resp.token) IN
    IF ResponseError(resp) # "none"
    THEN Ends(self, self.caller, ResponseError(resp))
    ELSE IF resp.kind = "no_token" \/ ~Truthy(resp.token)
    THEN Ends(self, self.caller, "DeyeCloudApiInvalidAuthError")
    ELSE IF assigned.error = "none"
    THEN Refreshed(assigned.self, self.caller, self.last.force)
    ELSE Ends(assigned.self, self.caller, "DeyeCloudApiInvalidAuthError")

\* api.auth_token = value by the owner of the object, between its calls
set_auth_token(value) ==
    /\ api.pc = "idle"
    /\ api' = [AuthTokenSetter(api, value).self EXCEPT
                  !.calls = <<>>,
                  !.last = Last("auth_token", FALSE, AuthTokenSetter(api, value).error)]
    /\ UNCHANGED <<clientVars, codec>>

\* time passes
clock(ticks) ==
    /\ api.now < ticks * ClockStep
    /\ api' = [api EXCEPT !.now = @ + ClockStep, !.calls = <<>>,
                          !.last = Last("clock", FALSE, "none")]
    /\ UNCHANGED <<clientVars, codec>>

\* await api.authenticate() by the owner, up to the await of line 230
authenticate ==
    /\ api.pc = "idle"
    /\ api' = [AuthenticateStart(api) EXCEPT
                  !.caller = "authenticate", !.last = Last("authenticate", FALSE, "none")]
    /\ UNCHANGED <<clientVars, codec>>

\* await api.refresh_token_if_near_expiry(force)
refresh_token_if_near_expiry(force) ==
    /\ api.pc = "idle"
    /\ api' = RefreshStart(api, "refresh_token_if_near_expiry", force)
    /\ UNCHANGED <<clientVars, codec>>

\* await api._make_authenticated_request("get", "mqttInfo/")
make_authenticated_request ==
    /\ api.pc = "idle"
    /\ api' = RefreshStart(api, "_make_authenticated_request", FALSE)
    /\ UNCHANGED <<clientVars, codec>>

\* the server answers the POST of refreshToken/
refresh_response(resp) ==
    /\ api.pc = "await_refresh"
    /\ api' = RefreshResume(api, resp)
    /\ UNCHANGED <<clientVars, codec>>

\* the server answers the POST of login/
login_response(resp) ==
    /\ api.pc = "await_login"
    /\ api' = AuthenticateResume(api, resp)
    /\ UNCHANGED <<clientVars, codec>>

\* _make_authenticated_request, lines 326-331: the server answers the request
request_response(resp) ==
    /\ api.pc = "await_request"
    /\ api' = Ends(api, api.caller, ResponseError(resp))
    /\ UNCHANGED <<clientVars, codec>>

ApiNext ==
    \/ \E v \in TokenValues : set_auth_token(v)
    \/ clock(MaxTicks)
    \/ authenticate
    \/ \E force \in BOOLEAN : refresh_token_if_near_expiry(force)
    \/ make_authenticated_request
    \/ \E resp \in Responses : refresh_response(resp)
    \/ \E resp \in Responses : login_response(resp)
    \/ \E resp \in Responses : request_response(resp)

ApiSpec == ApiInit /\ [][ApiNext]_vars

\* ============================================================ claims ====
Registered(r) == r \in Callbacks(subscribers, closures[r].topic)
SubscribedTopicsOf(calls) ==
    {calls[i].topic : i \in {j \in DOMAIN calls : calls[j].op = "subscribe"}}
UnsubscribedTopicsOf(calls) ==
    {calls[i].topic : i \in {j \in DOMAIN calls : calls[j].op = "unsubscribe"}}
OnConnectStep == ioPc = "on_connect" /\ ioPc' = "running"
UnsubscribeStep == lastOp'.name = "unsubscribe" /\ lastOp'.reg \in DOMAIN closures

\* C1: a command passed to publish_command while the transport is not
\* connected (on a client whose topic prefix is known, i.e. whose
\* _set_mqtt_info has run) is appended to the pending queue and nothing is
\* published; the on-connect handler publishes the queued (topic, payload)
\* pairs once each, in the order they were enqueued, and leaves the queue empty.
C1_PendingFlushedInOrder ==
    [][ /\ (lastOp'.name = "publish_command" /\ ~connected /\ EndpointKnown) =>
              /\ pending_commands' =
                    Append(pending_commands, <<CommandTopic, lastOp'.arg>>)
              /\ mqttCalls' = <<>>
        /\ (ioPc = "on_connect" /\ ioPc' = "running") =>
              /\ Len(CallsOf(mqttCalls', "publish")) = Len(pending_commands)
              /\ \A i \in DOMAIN pending_commands :
                    /\ CallsOf(mqttCalls', "publish")[i].topic = pending_commands[i][1]
                    /\ CallsOf(mqttCalls', "publish")[i].payload = pending_commands[i][2]
              /\ pending_commands' = <<>> ]_vars

C1_Witness ==
    /\ lastOp.name = "on_connect"
    /\ lastOp.pre = 2
    /\ pending_commands = <<>>
    /\ Len(CallsOf(mqttCalls, "publish")) = 2
    /\ CallsOf(mqttCalls, "publish")[1].payload # CallsOf(mqttCalls, "publish")[2].payload

\* C2: the future of a query is resolved at most once, its result is the
\* state of the first message delivered to the query's callback, a later
\* delivery changes nothing, and the query unsubscribes exactly once.
C2_QueryResolvesOnce ==
    \A k \in DOMAIN queries :
        LET q == queries[k] IN
        /\ q.resolved <= 1
        /\ q.unsubscribed <= 1
        /\ q.future = "result" =>
              /\ q.result = q.first
              /\ q.resolved = 1
              /\ q.unsubscribed = 1
              /\ ~Registered(q.unsubscribe)
        /\ (q.first # "none" /\ q.future # "cancelled") => q.future = "result"
        /\ q.future # "result" => q.resolved = 0 /\ q.unsubscribed = 0

C2_Witness ==
    \E k \in DOMAIN queries :
        /\ lastOp.name = "on_message"
        /\ lastOp.reg = queries[k].unsubscribe
        /\ queries[k].future = "result"
        /\ lastOp.arg # queries[k].result
        /\ queries[k].result = queries[k].first

\* C3: after a query was abandoned by the caller's timeout, the registry
\* holds no callback registered by that query.
C3_NoResidualSubscription ==
    \A k \in DOMAIN queries :
        queries[k].pc = "cancelled" => ~Registered(queries[k].unsubscribe)

\* C4: a second call of an unsubscribe function raises no error and leaves
\* the registry and the network subscriptions as the first call left them.
C4_UnsubscribeIdempotent ==
    [][ (UnsubscribeStep /\ ~Registered(lastOp'.reg)) =>
            /\ lastOp'.error = "none"
            /\ subscribers' = subscribers
            /\ brokerSubs' = brokerSubs ]_vars

\* C5: while connected, unsubscribing a callback issues a network
\* unsubscribe for its topic exactly when no callback remains on the topic;
\* when another callback remains nothing is sent, the broker subscription
\* stays, and a later message on the topic is handed off to every callback
\* still registered.
C5_UnsubscribeKeepsSharedTopic ==
    [][ /\ (UnsubscribeStep /\ connected /\ Registered(lastOp'.reg)) =>
              LET t == lastOp'.topic
                  rest == Callbacks(subscribers, t) \ {lastOp'.reg}
              IN  /\ Callbacks(subscribers', t) = rest
                  /\ rest # {} => mqttCalls' = <<>> /\ brokerSubs' = brokerSubs
                  /\ rest = {} => mqttCalls' = <<NetUnsubscribe(t)>>
        /\ \A t \in UnsubscribedTopicsOf(mqttCalls') :
              /\ connected
              /\ Callbacks(subscribers, t) # {}
              /\ Callbacks(subscribers', t) = {}
        /\ (lastOp'.name = "on_message_io" /\ lastOp'.error = "none") =>
              {loopQueue'[i].reg : i \in (DOMAIN loopQueue') \ (DOMAIN loopQueue)}
                 = Callbacks(subscribers, lastOp'.topic) ]_vars

C5_Witness ==
    /\ lastOp.name = "unsubscribe"
    /\ lastOp.wasConnected
    /\ lastOp.pre = 2
    /\ lastOp.error = "none"
    /\ mqttCalls = <<>>
    /\ Cardinality(Callbacks(subscribers, lastOp.topic)) = 1
    /\ lastOp.topic \in brokerSubs

\* C6: a subscribe operation issues a network subscribe for its topic if and
\* only if the transport is connected and the topic had no registered
\* callback before the call; it issues no other subscribe or unsubscribe.
C6_SubscribeOnlyFirst ==
    [][ (lastOp'.name \in {"subscribe", "query_device_state"}
            /\ lastOp'.error = "none") =>
            LET t == lastOp'.topic IN
            /\ (t \in SubscribedTopicsOf(mqttCalls'))
                  <=> (connected /\ Callbacks(subscribers, t) = {})
            /\ Len(CallsOf(mqttCalls', "subscribe")) <= 1
            /\ SubscribedTopicsOf(mqttCalls') \subseteq {t}
            /\ UnsubscribedTopicsOf(mqttCalls') = {}
            /\ Callbacks(subscribers', t) = Callbacks(subscribers, t) \cup {lastOp'.reg} ]_vars

C6_Witness ==
    /\ lastOp.name = "subscribe"
    /\ lastOp.wasConnected
    /\ lastOp.pre = 1
    /\ mqttCalls = <<>>
    /\ Cardinality(Callbacks(subscribers, lastOp.topic)) = 2

\* C7: unsubscribing a registered callback while disconnected removes only
\* that registration, makes no call on the transport and raises no error; the
\* on-connect handler does not subscribe a topic whose callback set is empty.
C7_OfflineUnsubscribeIsLocal ==
    [][ /\ (UnsubscribeStep /\ ~connected /\ Registered(lastOp'.reg)) =>
              /\ mqttCalls' = <<>>
              /\ lastOp'.error = "none"
              /\ brokerSubs' = brokerSubs
              /\ \A t \in Topics :
                    Callbacks(subscribers', t) =
                       Callbacks(subscribers, t) \ {lastOp'.reg}
        /\ OnConnectStep =>
              \A t \in Topics :
                 Callbacks(subscribers, t) = {} =>
                    /\ t \notin SubscribedTopicsOf(mqttCalls')
                    /\ t \notin brokerSubs' ]_vars

C7_Witness ==
    /\ lastOp.name = "unsubscribe"
    /\ ~lastOp.wasConnected
    /\ lastOp.pre = 1
    /\ lastOp.error = "none"
    /\ mqttCalls = <<>>
    /\ HasKey(subscribers, lastOp.topic)
    /\ Callbacks(subscribers, lastOp.topic) = {}
    /\ ioPc \in {"wait_refresh", "connecting"}

\* C8: the on-connect handler issues one network subscribe for each topic
\* whose callback set is non-empty and for no other topic, so that every
\* registered topic is subscribed at the broker when the handler is done.
C8_OnConnectResubscribes ==
    [][ OnConnectStep =>
            LET live == {t \in Topics : Callbacks(subscribers, t) # {}} IN
            /\ SubscribedTopicsOf(mqttCalls') = live
            /\ Len(CallsOf(mqttCalls', "subscribe")) = Cardinality(live)
            /\ live \subseteq brokerSubs'
            /\ subscribers' = subscribers ]_vars

C8_Witness ==
    /\ lastOp.name = "on_connect"
    /\ \E t1, t2 \in Topics :
          /\ HasKey(subscribers, t1)
          /\ Callbacks(subscribers, t1) = {}
          /\ Callbacks(subscribers, t2) # {}
          /\ SubscribedTopicsOf(mqttCalls) = {t2}
          /\ brokerSubs = {t2}

\* C9: after a disconnect with a non-zero result code the handler schedules
\* the credential refresh and waits; the reconnect starts only once the
\* refresh is complete and the client holds MQTT info fetched after the loss.  After
\* result code 0 no refresh is scheduled.
C9_RefreshBeforeReconnect ==
    [][ /\ (lastOp'.name = "on_disconnect" /\ lastOp'.pre # 0) =>
              /\ ioPc' = "wait_refresh"
              /\ loopQueue' = Append(loopQueue, RefreshTask)
        /\ (lastOp'.name = "on_disconnect" /\ lastOp'.pre = 0) =>
              /\ loopQueue' = loopQueue
              /\ refreshPc' = refreshPc
              /\ ioPc' = "stopped"
        /\ (ioPc \in {"running", "wait_refresh"} /\ ioPc' = "connecting") =>
              /\ refreshPc = "done"
              /\ mqttCreds = "fresh" ]_vars

C9_Witness ==
    /\ lastOp.name = "on_disconnect_return"
    /\ ioPc = "connecting"
    /\ mqttCreds = "fresh"

\* C10: connect() asks the cloud API for the MQTT info once, before any call
\* on the transport; when that fails the error reaches the caller and neither
\* connect_async nor loop_start is called.
C10_ConnectFetchesFirst ==
    [][ /\ lastOp'.name = "connect_call" =>
              /\ mqttCalls' = <<GetMqttInfo>>
              /\ ioPc' = ioPc
        /\ (connectPc = "await_info" /\ connectPc' = "idle") =>
              /\ CallsOf(mqttCalls', "get_deye_platform_mqtt_info") = <<>>
              /\ IF lastOp'.arg = "none"
                 THEN /\ lastOp'.error = "none"
                      /\ mqttCalls' = <<Call("username_pw_set", "", ""),
                                        Call("connect_async", "", ""),
                                        Call("loop_start", "", "")>>
                      /\ ioPc' = "connecting"
                 ELSE /\ lastOp'.error = lastOp'.arg
                      /\ lastOp'.error \in ApiErrors
                      /\ mqttCalls' = <<>>
                      /\ ioPc' = ioPc
                      /\ mqttCreds' = mqttCreds ]_vars

C10_Witness ==
    /\ lastOp.name = "connect"
    /\ lastOp.error \in ApiErrors
    /\ mqttCalls = <<>>
    /\ ioPc \in {"idle", "stopped"}
    /\ ~connected

\* C11: a message on a registered topic whose payload is malformed (no JSON
\* text, or a JSON value without the expected key) hands off no callback,
\* leaves the registry as it was, and no error leaves the message handler:
\* the network thread goes on and dispatches later messages.
C11_MalformedIsSwallowed ==
    [][ (lastOp'.name = "on_message_io" /\ lastOp'.pre > 0
            /\ lastOp'.error # "none") =>
            /\ loopQueue' = loopQueue
            /\ subscribers' = subscribers
            /\ ioPc' = "running" ]_vars

\* C12: a message whose payload decodes hands off exactly one invocation of
\* every callback registered for its topic at that moment, each with the
\* decoded payload, behind what the loop already holds; a message on a topic
\* that is no key of the registry hands off nothing; the handler on the
\* network thread runs no callback, callbacks run only as steps of the event
\* loop, which take the oldest hand-off.
C12_OneHandOffPerCallback ==
    [][ /\ (lastOp'.name = "on_message_io" /\ lastOp'.error = "none") =>
              LET cbs == Callbacks(subscribers, lastOp'.topic)
                  n == Len(loopQueue)
              IN  /\ Len(loopQueue') = n + Cardinality(cbs)
                  /\ SubSeq(loopQueue', 1, n) = loopQueue
                  /\ {loopQueue'[i].reg : i \in (n + 1)..Len(loopQueue')} = cbs
                  /\ \A i \in (n + 1)..Len(loopQueue') :
                        /\ loopQueue'[i].kind = "callback"
                        /\ loopQueue'[i].arg = lastOp'.arg
                  /\ queries' = queries
                  /\ subscribers' = subscribers
        /\ (lastOp'.name = "on_message_io"
                /\ ~HasKey(subscribers, lastOp'.topic)) =>
              /\ loopQueue' = loopQueue
              /\ lastOp'.error = "none"
        /\ (lastOp'.name \in {"callback", "on_message"}) =>
              /\ ~loopBlocked
              /\ loopQueue # <<>>
              /\ Head(loopQueue).reg = lastOp'.reg
              /\ Head(loopQueue).arg = lastOp'.arg
              /\ loopQueue' = Tail(loopQueue)
              /\ ioPc' = ioPc ]_vars

C12_Witness ==
    /\ lastOp.name = "on_message_io"
    /\ lastOp.pre = 2
    /\ lastOp.error = "none"
    /\ lastOp.arg = "s2"
    /\ Len(loopQueue) = 2
    /\ loopQueue[1].reg # loopQueue[2].reg
    /\ {loopQueue[1].reg, loopQueue[2].reg} = Callbacks(subscribers, lastOp.topic)

\* C13: Classic publish_command (on a client whose topic prefix is known):
\* while connected the command bytes are published at once on command/hex and
\* the pending queue is unchanged; while not connected nothing is published and
\* exactly one (topic, bytes) entry is appended to the end of the queue.
C13_PublishOrQueue ==
    [][ (lastOp'.name = "publish_command" /\ lastOp'.error = "none") =>
            IF connected
            THEN /\ mqttCalls' = <<NetPublish(CommandTopic, lastOp'.arg)>>
                 /\ pending_commands' = pending_commands
            ELSE /\ mqttCalls' = <<>>
                 /\ Len(pending_commands') = Len(pending_commands) + 1
                 /\ SubSeq(pending_commands', 1, Len(pending_commands))
                        = pending_commands
                 /\ pending_commands'[Len(pending_commands')]
                        = <<CommandTopic, lastOp'.arg>> ]_vars

C13_Witness ==
    /\ lastOp.name = "publish_command"
    /\ lastOp.error = "none"
    /\ lastOp.wasConnected
    /\ lastOp.arg \in UserCommands
    /\ mqttCalls = <<NetPublish(CommandTopic, lastOp.arg)>>
    /\ pending_commands = <<>>

\* ---- codec claims
Bit(v, k) == (v \div 2^k) % 2 = 1
BoolInt(b) == IF b THEN 1 ELSE 0
WellFormedHex(str) ==
    /\ Len(str) % 2 = 0
    /\ \A i \in DOMAIN str : HexVal(str[i]) >= 0
Encoded == codec.op = "to_bytes" /\ codec.input.target_humidity \in 0..255
Decoded == codec.op = "parse_state_classic" /\ codec.output.error = "none"

\* C14: publish_command and query_device_state of the Fog client, in every
\* connection state, make exactly one cloud API call (property-set,
\* property-get) for the given device and nothing else: nothing is published
\* over MQTT, the pending queue, the registry and the broker subscriptions stay
\* as they are, and the error of the call is the error the caller gets.
C14_FogUsesCloudApi ==
    [][ (lastOp'.name \in {"fog_publish_command", "fog_query_device_state"}) =>
            /\ Len(mqttCalls') = 1
            /\ mqttCalls'[1].op =
                  (IF lastOp'.name = "fog_publish_command"
                   THEN "set_fog_platform_device_properties"
                   ELSE "get_fog_platform_device_properties")
            /\ mqttCalls'[1].topic = lastOp'.arg
            /\ lastOp'.arg \in Devices
            /\ lastOp'.error = mqttCalls'[1].payload
            /\ CallsOf(mqttCalls', "publish") = <<>>
            /\ pending_commands' = pending_commands
            /\ pending_commands' = <<>>
            /\ subscribers' = subscribers
            /\ closures' = closures
            /\ brokerSubs' = brokerSubs
            /\ loopQueue' = loopQueue ]_vars

C14_Witness ==
    /\ lastOp.name = "fog_publish_command"
    /\ lastOp.wasConnected
    /\ connected
    /\ lastOp.error \in ApiErrors
    /\ Callbacks(subscribers, FogTopic) # {}
    /\ pending_commands = <<>>
    /\ mqttCalls = <<FogApiCall("set_fog_platform_device_properties",
                                 lastOp.arg, lastOp.error)>>

\* C15: when the event loop runs a Fog registration for device D on a
\* message, the user's state-change callback is invoked only if the message
\* has device_id D, biz_code "device_data" and data.message_type
\* "thing_property"; the availability callback only if it has device_id D and
\* biz_code "device_status", and then with (data.status == "online"); a
\* message for another device invokes neither.
C15_FogFilters ==
    [][ lastOp'.name = "fog_callback" =>
            LET c == closures[lastOp'.reg]
                p == FogDoc(Head(loopQueue).arg)
                invoked == lastOp'.pre = 1
            IN  /\ Head(loopQueue).reg = lastOp'.reg
                /\ (invoked /\ c.kind = "state") =>
                      /\ p.device_id = c.device
                      /\ p.biz_code = "device_data"
                      /\ p.message_type = "thing_property"
                /\ (invoked /\ c.kind = "availability") =>
                      /\ p.device_id = c.device
                      /\ p.biz_code = "device_status"
                      /\ lastOp'.arg =
                            (IF p.status = "online" THEN "True" ELSE "False")
                /\ p.device_id # c.device => ~invoked
                /\ (c.kind = "availability" /\ p.device_id = c.device
                      /\ p.biz_code = "device_status") => invoked ]_vars

C15_Witness ==
    /\ lastOp.name = "fog_callback"
    /\ lastOp.pre = 1
    /\ closures[lastOp.reg].kind = "availability"
    /\ closures[lastOp.reg].device = "devA"
    /\ lastOp.arg = "False"
    /\ \E r \in DOMAIN closures : closures[r].device = "devB"

\* C16: for every command with a target humidity in 0..255 to_bytes() returns
\* exactly 10 bytes: 0x08, 0x02, the flag byte, the byte with the fan speed in
\* its high nibble and the mode in its low nibble, the target humidity, and
\* five zero bytes; the default command gives 08 02 00 10 3c 00 00 00 00 00.
C16_ToBytesLayout ==
    Encoded =>
        LET c == codec.input
            b == codec.output.bytes
        IN  /\ codec.output.error = "none"
            /\ Len(b) = 10
            /\ b[1] = 8
            /\ b[2] = 2
            /\ b[3] = CommandFlag(c)
            /\ b[4] = 16 * c.fan_speed + c.mode
            /\ b[4] \div 16 = c.fan_speed
            /\ b[4] % 16 = c.mode
            /\ b[5] = c.target_humidity
            /\ \A i \in 6..10 : b[i] = 0
            /\ c = DefaultCommand => b = <<8, 2, 0, 16, 60, 0, 0, 0, 0, 0>>

C16_Witness ==
    /\ Encoded
    /\ codec.input.fan_speed = 4
    /\ codec.input.mode = 6
    /\ codec.input.target_humidity = 255
    /\ Len(codec.output.bytes) = 10
    /\ codec.output.bytes[4] = 70
    /\ codec.output.bytes[5] = 255

\* C17: for every combination of the five switches the flag byte is bit 0 for
\* power, bit 1 for oscillating, bit 2 for child lock, bit 5 for water pump
\* and bit 6 for anion, and no other bit; power with child lock gives 0x05,
\* all five give 0x67.
C17_FlagByteBits ==
    Encoded =>
        LET c == codec.input
            flag == codec.output.bytes[3]
        IN  /\ flag = BoolInt(c.power_switch) + 2 * BoolInt(c.oscillating_switch)
                      + 4 * BoolInt(c.child_lock_switch)
                      + 32 * BoolInt(c.water_pump_switch)
                      + 64 * BoolInt(c.anion_switch)
            /\ Bit(flag, 0) = c.power_switch
            /\ Bit(flag, 1) = c.oscillating_switch
            /\ Bit(flag, 2) = c.child_lock_switch
            /\ ~Bit(flag, 3) /\ ~Bit(flag, 4) /\ ~Bit(flag, 7)
            /\ Bit(flag, 5) = c.water_pump_switch
            /\ Bit(flag, 6) = c.anion_switch
            /\ (c.power_switch /\ c.child_lock_switch /\ ~c.oscillating_switch
                  /\ ~c.water_pump_switch /\ ~c.anion_switch) => flag = 5
            /\ (c.power_switch /\ c.child_lock_switch /\ c.oscillating_switch
                  /\ c.water_pump_switch /\ c.anion_switch) => flag = 103

C17_Witness ==
    /\ Encoded
    /\ codec.input.power_switch /\ codec.input.child_lock_switch
    /\ codec.input.oscillating_switch /\ codec.input.water_pump_switch
    /\ codec.input.anion_switch
    /\ codec.output.bytes[3] = 103

\* C18: in a decoded Classic state, with v the big-endian 16-bit value of
\* frame bytes 2 and 3: anion is bit 0, water pump bit 1, power bit 8,
\* oscillating bit 9, child lock bit 10, defrosting bit 13, water tank full
\* bit 14 and fan running bit 15 of v, whatever the other bits are; bits 11
\* (POWEROFF) and 12 (POWERON) have no part in power_switch.
C18_DecodeFlagBits ==
    Decoded =>
        LET bytes == FromHex(codec.input).bytes
            v == 256 * bytes[3] + bytes[4]
            st == codec.output.state
        IN  /\ st.anion_switch = Bit(v, 0)
            /\ st.water_pump_switch = Bit(v, 1)
            /\ st.power_switch = Bit(v, 8)
            /\ st.oscillating_switch = Bit(v, 9)
            /\ st.child_lock_switch = Bit(v, 10)
            /\ st.defrosting = Bit(v, 13)
            /\ st.water_tank_full = Bit(v, 14)
            /\ st.fan_running = Bit(v, 15)

C18_Witness ==
    /\ Decoded
    /\ LET bytes == FromHex(codec.input).bytes
           v == 256 * bytes[3] + bytes[4]
       IN  /\ Bit(v, 12) /\ Bit(v, 11) /\ ~Bit(v, 8)
           /\ Bit(v, 15) /\ Bit(v, 1) /\ ~Bit(v, 0)
    /\ ~codec.output.state.power_switch
    /\ codec.output.state.fan_running
    /\ codec.output.state.water_pump_switch
    /\ ~codec.output.state.anion_switch

\* C19: in a decoded Classic state the fan speed is the hex digit at string
\* index 8 and the mode the hex digit at string index 9, which for a string
\* of hex digit pairs without separators are the high and the low nibble of
\* byte 4; the target humidity is byte 5, the ambient temperature byte 15
\* minus 40 (negative below 40) and the ambient humidity byte 16.
C19_DecodeFields ==
    Decoded =>
        LET str == codec.input
            bytes == FromHex(str).bytes
            st == codec.output.state
        IN  /\ st.fan_speed = HexVal(str[9])
            /\ st.mode = HexVal(str[10])
            /\ WellFormedHex(str) =>
                  /\ st.fan_speed = bytes[5] \div 16
                  /\ st.mode = bytes[5] % 16
            /\ st.target_humidity = bytes[6]
            /\ st.environment_temperature = bytes[16] - 40
            /\ (bytes[16] < 40) = (st.environment_temperature < 0)
            /\ st.environment_humidity = bytes[17]

C19_Witness ==
    /\ Decoded
    /\ WellFormedHex(codec.input)
    /\ codec.output.state.environment_temperature = -1
    /\ codec.output.state.target_humidity = 255
    /\ codec.output.state.environment_humidity = 255
    /\ codec.output.state.fan_speed = 1
    /\ codec.output.state.mode = 1

\* C20: a string of hex digit pairs that decodes to at least 17 bytes, with a
\* fan-speed digit in 0..4 and a mode digit in 0..6, yields a state; a string
\* of fewer than 17 bytes yields an error and no state.
C20_DecodeAcceptsSeventeenBytes ==
    codec.op = "parse_state_classic" =>
        LET str == codec.input IN
        /\ (WellFormedHex(str) /\ Len(str) >= 2 * 17
              /\ HexVal(str[9]) \in 0..4 /\ HexVal(str[10]) \in 0..6)
              => codec.output.error = "none"
        /\ (WellFormedHex(str) /\ Len(str) < 2 * 17)
              => codec.output.error # "none"

\* C21: a Fog property map that carries the eight boolean keys decodes, when
\* its WindSpeed and Mode (if any) are enum members; each of WindSpeed, Mode,
\* SetHumidity, CurrentAmbientTemperature and CurrentEnvironmentalHumidity
\* that is absent leaves its field at STOPPED (0), SLEEP_MODE (6), 60, 27
\* and 27, and each that is present sets its own field to its value.
FogFieldOf ==
    [WindSpeed |-> "fan_speed", Mode |-> "mode", SetHumidity |-> "target_humidity",
     CurrentAmbientTemperature |-> "environment_temperature",
     CurrentEnvironmentalHumidity |-> "environment_humidity"]
FogDefaultOf ==
    [WindSpeed |-> 0, Mode |-> 6, SetHumidity |-> 60,
     CurrentAmbientTemperature |-> 27, CurrentEnvironmentalHumidity |-> 27]
C21_FogDefaults ==
    codec.op = "parse_state_fog" =>
        LET m == codec.input IN
        /\ (/\ RequiredKeys \subseteq DOMAIN m
            /\ "WindSpeed" \in DOMAIN m => m["WindSpeed"] \in 0..4
            /\ "Mode" \in DOMAIN m => m["Mode"] \in 0..6)
              => codec.output.error = "none"
        /\ codec.output.error = "none" =>
              \A k \in OptionalKeys :
                  codec.output.state[FogFieldOf[k]] =
                      IF k \in DOMAIN m THEN m[k] ELSE FogDefaultOf[k]

C21_Witness ==
    /\ codec.op = "parse_state_fog"
    /\ DOMAIN codec.input =
          RequiredKeys \cup {"Mode", "CurrentAmbientTemperature"}
    /\ codec.output.error = "none"
    /\ codec.output.state.mode = 3
    /\ codec.output.state.environment_temperature = 22
    /\ codec.output.state.fan_speed = 0
    /\ codec.output.state.target_humidity = 60
    /\ codec.output.state.environment_humidity = 27

\* C22: when a Classic frame and a Fog property map describe the same
\* thirteen values (a Fog boolean non-zero iff the frame's flag bit is set,
\* the Fog numbers equal to the frame's nibbles and bytes, the temperature
\* being byte 15 minus 40), both decode and the two states compare equal in
\* both directions, whatever their other bits and properties hold.
FogBitOf ==
    [NegativeIon |-> 0, WaterPump |-> 1, Power |-> 8, SwingingWind |-> 9,
     KeyLock |-> 10, Demisting |-> 13, WaterTank |-> 14, Fan |-> 15]
Describes(frame, properties) ==
    LET bytes == FromHex(frame).bytes IN
    /\ WellFormedHex(frame)
    /\ Len(bytes) >= 18
    /\ RequiredKeys \cup OptionalKeys \subseteq DOMAIN properties
    /\ \A k \in RequiredKeys :
          Bit(256 * bytes[3] + bytes[4], FogBitOf[k]) = (properties[k] # 0)
    /\ properties["WindSpeed"] = bytes[5] \div 16
    /\ properties["Mode"] = bytes[5] % 16
    /\ properties["WindSpeed"] \in 0..4
    /\ properties["Mode"] \in 0..6
    /\ properties["SetHumidity"] = bytes[6]
    /\ properties["CurrentAmbientTemperature"] = bytes[16] - 40
    /\ properties["CurrentEnvironmentalHumidity"] = bytes[17]
C22_ClassicEqualsFog ==
    (codec.op = "decode_both" /\ Describes(codec.input.classic, codec.input.fog))
        => /\ codec.output.error = "none"
           /\ codec.output.equal
           /\ codec.output.equal_reflected

C22_Witness ==
    /\ codec.op = "decode_both"
    /\ Describes(codec.input.classic, codec.input.fog)
    /\ codec.input.fog["Fan"] = 2
    /\ codec.output.error = "none"
    /\ codec.output.equal
    /\ codec.output.classic.environment_temperature = -1
    /\ codec.output.classic._press_state # codec.output.fog._press_state
    /\ codec.output.classic._coil_temperature # codec.output.fog._coil_temperature

\* C23: to_json() of a command is a map with exactly the keys KeyLock, Mode,
\* Power, WindSpeed, SetHumidity, NegativeIon, SwingingWind and WaterPump;
\* each switch is 1 when on and 0 when off, Mode and WindSpeed are the enum
\* ordinals and SetHumidity is target_humidity.
C23_ToJson ==
    codec.op = "to_json" =>
        LET c == codec.input
            json == codec.output.json
        IN  /\ DOMAIN json = {"KeyLock", "Mode", "Power", "WindSpeed",
                              "SetHumidity", "NegativeIon", "SwingingWind",
                              "WaterPump"}
            /\ json["KeyLock"] = BoolInt(c.child_lock_switch)
            /\ json["Power"] = BoolInt(c.power_switch)
            /\ json["NegativeIon"] = BoolInt(c.anion_switch)
            /\ json["SwingingWind"] = BoolInt(c.oscillating_switch)
            /\ json["WaterPump"] = BoolInt(c.water_pump_switch)
            /\ json["Mode"] = c.mode
            /\ json["WindSpeed"] = c.fan_speed
            /\ json["SetHumidity"] = c.target_humidity

C23_Witness ==
    /\ codec.op = "to_json"
    /\ codec.input.power_switch
    /\ codec.input.child_lock_switch
    /\ ~codec.input.anion_switch
    /\ codec.output.json["Power"] = 1
    /\ codec.output.json["NegativeIon"] = 0
    /\ codec.output.json["WindSpeed"] = 2
    /\ codec.output.json["Mode"] = 3
    /\ codec.output.json["SetHumidity"] = 60

\* C24: to_command() of a state, also of one whose fields were assigned
\* after parsing, returns a command with exactly the eight command fields,
\* each equal to the state's value of that field when to_command() was
\* called, and leaves every field of the state as it was.
C24_ToCommandCopies ==
    codec.op = "to_command" =>
        /\ DOMAIN codec.output.command = CommandFields
        /\ \A f \in CommandFields :
              codec.output.command[f] = codec.output.before[f]
        /\ codec.output.state = codec.output.before

C24_Witness ==
    /\ codec.op = "to_command"
    /\ codec.output.source = "set_attr"
    /\ codec.output.command.power_switch
    /\ codec.output.command.anion_switch
    /\ codec.output.command.fan_speed = 2
    /\ codec.output.command.mode = 2
    /\ codec.output.command.target_humidity = 60
    /\ ~codec.output.before.fan_running

\* C25: a Classic frame of hex digit pairs carrying the five switches (flag
\* bits 0, 1, 8, 9, 10), a fan speed in 0..4 and a mode in 0..6 (nibbles of
\* byte 4) and a target humidity (byte 5) decodes, and to_command() of the
\* decoded state equals, in both directions, the DeyeDeviceCommand built
\* from those eight values.
CommandIn(frame) ==
    LET bytes == FromHex(frame).bytes
        flags == 256 * bytes[3] + bytes[4]
    IN  [anion_switch |-> Bit(flags, 0), water_pump_switch |-> Bit(flags, 1),
         power_switch |-> Bit(flags, 8), oscillating_switch |-> Bit(flags, 9),
         child_lock_switch |-> Bit(flags, 10),
         fan_speed |-> bytes[5] \div 16, mode |-> bytes[5] % 16,
         target_humidity |-> bytes[6]]
C25_FrameToCommand ==
    /\ (/\ codec.op = "parse_state_classic"
        /\ WellFormedHex(codec.input)
        /\ Len(codec.input) >= 2 * 18
        /\ HexVal(codec.input[9]) \in 0..4
        /\ HexVal(codec.input[10]) \in 0..6)
          => codec.output.error = "none"
    /\ (/\ codec.op = "to_command"
        /\ codec.output.source = "parse_state_classic"
        /\ WellFormedHex(codec.input))
          => /\ CommandEq(codec.output.command,
                          Object("DeyeDeviceCommand", CommandIn(codec.input)))
             /\ CommandEq(CommandIn(codec.input),
                          Object("DeyeDeviceCommand", codec.output.command))

C25_Witness ==
    /\ codec.op = "to_command"
    /\ codec.output.source = "parse_state_classic"
    /\ WellFormedHex(codec.input)
    /\ CommandIn(codec.input) =
          [anion_switch |-> TRUE, water_pump_switch |-> TRUE,
           power_switch |-> TRUE, oscillating_switch |-> TRUE,
           child_lock_switch |-> TRUE, fan_speed |-> 4, mode |-> 6,
           target_humidity |-> 255]
    /\ codec.output.command = CommandIn(codec.input)

\* C26 as stated: decoding the frame of to_bytes(), as a hex string, with the
\* Classic state decoder and taking to_command() yields a command equal to
\* the original.
C26_RoundTrip ==
    codec.op = "decode_encoded" =>
        /\ codec.output.error = "none"
        /\ codec.output.equal

\* C26 as amended: the frame of to_bytes() has 10 bytes in the command
\* layout, and the Classic state decoder, which reads the state layout,
\* decodes it for no command: it raises ValueError when the humidity byte,
\* read as speed|mode, has a high nibble above 4 or a low nibble above 6, and
\* IndexError otherwise.
C26_EncodedFrameIsNoState ==
    codec.op = "decode_encoded" =>
        LET h == codec.input.target_humidity IN
        /\ Len(codec.output.hex) = 20
        /\ codec.output.error =
              IF h \div 16 > 4 \/ h % 16 > 6 THEN "ValueError" ELSE "IndexError"

C26_Witness ==
    /\ codec.op = "decode_encoded"
    /\ codec.input.target_humidity = 60
    /\ codec.input.fan_speed = 3
    /\ codec.input.power_switch
    /\ codec.output.error = "ValueError"

\* C27: a state equals another value exactly when that value is a state and
\* all thirteen public fields are pairwise equal; the diagnostic fields play
\* no part, and a value that is no state is never equal.
C27_StateEquality ==
    codec.op = "state_eq" =>
        LET self == codec.input.self
            other == codec.input.other
        IN  codec.output.equal =
              (/\ other.class = "DeyeDeviceState"
               /\ \A f \in PublicFields : self[f] = other.value[f])

C27_Witness ==
    /\ codec.op = "state_eq"
    /\ codec.input.other.class = "DeyeDeviceState"
    /\ ~codec.output.equal
    /\ \A f \in PublicFields \ {"environment_humidity"} :
          codec.input.self[f] = codec.input.other.value[f]
    /\ \A f \in DiagnosticFields :
          codec.input.self[f] = codec.input.other.value[f]


\* ---- transport claims: teardown, hand-offs, errors of the lambdas
RegisteredIn(d, c) == {r \in DOMAIN c : r \in Callbacks(d, c[r].topic)}
HandOffsFor(queue, r) ==
    Cardinality({i \in DOMAIN queue : queue[i].kind = "callback" /\ queue[i].reg = r})
\* a step of the event loop that runs the hand-off at the head of its queue
RunsHandOff ==
    /\ loopQueue # <<>>
    /\ Head(loopQueue).kind = "callback"
    /\ loopQueue' = Tail(loopQueue)

\* C31: every call of disconnect() returns: whenever the event loop thread is
\* inside disconnect() (joining the network thread in loop_stop), it later
\* leaves it, also when the network thread is inside _mqtt_on_disconnect
\* waiting for the refresh coroutine.
C31_DisconnectReturns == [](loopBlocked => <>(~loopBlocked))

C33_SubscribeBeforeFlush ==
    lastOp.name = "on_connect" =>
        /\ \A i, j \in DOMAIN mqttCalls :
              (mqttCalls[i].op = "subscribe" /\ mqttCalls[j].op = "publish") => i < j
        /\ \A j \in DOMAIN mqttCalls :
              mqttCalls[j] = NetPublish(CommandTopic, QUERY_DEVICE_STATE_COMMAND_CLASSIC)
                 => \E i \in 1..(j - 1) : mqttCalls[i] = NetSubscribe(StatusTopic)

C33_Witness ==
    /\ lastOp.name = "on_connect"
    /\ Len(queries) = 1
    /\ queries[1].future = "pending"
    /\ \E i, j \in DOMAIN mqttCalls :
          /\ i < j
          /\ mqttCalls[i] = NetSubscribe(StatusTopic)
          /\ mqttCalls[j] = NetPublish(CommandTopic, QUERY_DEVICE_STATE_COMMAND_CLASSIC)

\* C34: when the lambda of a subscription cannot decode the payload handed to
\* it, the user's callback is not invoked, no query is resolved, the registry
\* is unchanged, no error leaves the client, and both threads go on.
C34_DecodeFailureDropsMessage ==
    [][(RunsHandOff /\ LambdaError(closures[Head(loopQueue).reg].topic,
                                   Head(loopQueue).arg) # "none") =>
          /\ lastOp'.name \notin {"callback", "on_message"}
          /\ queries' = queries
          /\ subscribers' = subscribers
          /\ ioPc' = ioPc
          /\ loopBlocked' = loopBlocked
          /\ lastOp'.error = "none"]_vars

\* C35: when the refresh started by an unexpected disconnect fails, the error
\* is raised inside _mqtt_on_disconnect, the network thread does not go on to
\* reconnect, a reconnect only ever starts with MQTT info fetched after the
\* loss, and neither the failing refresh nor the raising handler changes the
\* registry or the pending queue.
C35_FailedRefreshStopsReconnect ==
    [][ /\ (lastOp'.name = "refresh" /\ lastOp'.error # "none") =>
              /\ mqttCreds' = mqttCreds
              /\ ioPc' = ioPc
              /\ subscribers' = subscribers
              /\ pending_commands' = pending_commands
        /\ (ioPc = "wait_refresh" /\ refreshPc = "failed" /\ ioPc' # ioPc) =>
              /\ lastOp'.name = "on_disconnect_return"
              /\ lastOp'.error # "none"
              /\ ioPc' = "dead"
              /\ mqttCreds' = "stale"
              /\ subscribers' = subscribers
              /\ pending_commands' = pending_commands
        /\ (ioPc # "connecting" /\ ioPc' = "connecting") => mqttCreds' = "fresh"
      ]_vars

C35_Witness ==
    /\ lastOp.name = "on_disconnect_return"
    /\ lastOp.error # "none"
    /\ ioPc = "dead"
    /\ mqttCreds = "stale"
    /\ subscribers # <<>>
    /\ pending_commands # <<>>

\* C37: an unsubscribe call removes the callback it was made for and no
\* other; a subscription adds its own callback and no other; every other
\* step (connect, disconnect, on-connect, on-disconnect, on-message, publish,
\* hand-offs run by the loop other than a query's own unsubscribe) leaves the
\* registry as it is.
C37_UnsubscribeRemovesOnlyItsCallback ==
    [][LET before == RegisteredIn(subscribers, closures)
           after == RegisteredIn(subscribers', closures')
       IN  /\ (lastOp'.name \in {"subscribe", "query_device_state"}
                  /\ lastOp'.error = "none")
                 => after = before \cup {lastOp'.reg}
           /\ lastOp'.name = "unsubscribe" => after = before \ {lastOp'.reg}
           /\ lastOp'.name = "on_message" =>
                 /\ after \subseteq before
                 /\ before \ after \subseteq {lastOp'.reg}
           /\ (lastOp'.name \notin {"subscribe", "query_device_state",
                                    "unsubscribe", "on_message"}
                  \/ lastOp'.error = "AttributeError")
                 => subscribers' = subscribers]_vars

C37_Witness ==
    /\ lastOp.name = "unsubscribe"
    /\ lastOp.error = "none"
    /\ \E r1, r2 \in DOMAIN closures :
          /\ Registered(r1)
          /\ Registered(r2)
          /\ closures[r1].topic = lastOp.topic
          /\ closures[r2].topic # lastOp.topic

\* ---- cloud API claims ----

StartsRefresh ==
    /\ api.pc = "idle"
    /\ api'.last.op \in {"refresh_token_if_near_expiry", "_make_authenticated_request"}

C39_DefaultMergedWithEntry ==
    codec.op \in {"utils.get_product_feature_config",
                  "const.get_product_feature_config"}
        => /\ codec.output.error = "none"
           /\ DOMAIN codec.output.value = DOMAIN DefaultProductConfig
           /\ \A k \in DOMAIN DefaultProductConfig :
                codec.output.value[k] =
                    IF /\ codec.input.product_id \in DOMAIN PRODUCT_FEATURE_CONFIG
                       /\ k \in DOMAIN PRODUCT_FEATURE_CONFIG[codec.input.product_id]
                    THEN PRODUCT_FEATURE_CONFIG[codec.input.product_id][k]
                    ELSE DefaultProductConfig[k]

\* the same of const.get_product_feature_config alone
ConstDefaultMergedWithEntry ==
    codec.op = "const.get_product_feature_config" => C39_DefaultMergedWithEntry

\* ---- interleaving claims
Accepted ==
    {k \in 1..issued : ~(loopPc.op = "publish_command" /\ loopPc.command = k)}
InQueue(k) == \E i \in DOMAIN pending_commands : pending_commands[i][2] = k
TimesPublished(k) == Cardinality({i \in DOMAIN published : published[i] = k})

\* C28: under every interleaving of publish_command with the on-connect
\* flush, a command whose publish_command call has returned is either still
\* in the pending queue or has been published, and none is published twice.
C28_NoCommandLost ==
    \A k \in Accepted :
        /\ InQueue(k) \/ TimesPublished(k) = 1
        /\ TimesPublished(k) <= 1

\* C29: the commands reach the broker in the order of their publish_command
\* calls: a later call's command is never published before an earlier one.
C29_PublishedInCallOrder ==
    \A i, j \in DOMAIN published : i < j => published[i] < published[j]

\* C30: while the network thread is inside its scan of the subscriber
\* registry, or inside its flush of the pending queue up to the clear, no
\* step of the event loop thread touches that container.
LoopThreadStep == ioIter' = ioIter /\ ioPc' = ioPc /\ connected' = connected
C30_MutualExclusion ==
    [][LoopThreadStep =>
          /\ ioIter.over \in {"subscribers", "subscribe"}
                => subscribers' = subscribers
          /\ ioIter.over \in {"pending_commands", "exhausted"}
                => pending_commands' = pending_commands]_vars

\* C36: whenever the transport is connected, _mqtt_on_connect has returned
\* and no call of the event loop thread is under way, the topics subscribed
\* at the broker are the topics of the registry that have a callback.
C36_BrokerMatchesRegistry ==
    (connected /\ ioPc = "running" /\ loopPc = Idle) =>
        brokerSubs = {t \in Topics : Callbacks(subscribers, t) # {}}

====
